---- MODULE Spec2Model ----
(***************************************************************************)
(* Model of the real-time viewer and the batch registration pipeline of    *)
(* img_processing:                                                         *)
(*   - rt_viewer/rtviewer/cache.py       TileCache (SpecCache)             *)
(*   - rt_viewer/rtviewer/controller.py  ViewerController (SpecCtl)        *)
(*   - registration.py                   bundle adjustment (SpecBA)        *)
(***************************************************************************)
EXTENDS Integers, Sequences, FiniteSets, TLC

(***************************************************************************)
(* Bounds of the model.                                                    *)
(***************************************************************************)
\* max_bytes given to TileCache.__init__
MaxBytes == 3
\* number of distinct (fov, z, level) keys the clients use
NumKeys == 3
\* number of client threads calling get / put
NumThreads == 2
\* number of get / put calls made in one behaviour
MaxOps == 4
\* number of view-change events handled in one behaviour
MaxEvents == 3
\* max_workers of the controller's ThreadPoolExecutor
MaxWorkers == 2
\* number of tiles in the coordinate table given to the batch registration
NumTiles == 3
\* largest error, in pixels, of a measured pairwise shift
MaxError == 1
\* side of the square images given to phase_correlation
TileSide == 3
\* largest number of rows of an offsets table given to composite
MaxRows == 2
\* largest number of tiles of an overview, and of factors of a pyramid
MaxGrid == 3
MaxFactors == 2

VARIABLES
    \* ---- TileCache (cache.py) ----
    cache,      \* the LRUCache: [data, order, currsize]
    lock,       \* self._lock: the thread holding it, or NoThread
    pc,         \* per thread: where it is inside get / put
    arg,        \* per thread: the call it is executing
    ret,        \* the outcome handed to the caller by the step just taken
                \* (NoRet when that step completed no call)
    loads,      \* per key: how often DataSource.load_tile was called for it
    loaded,     \* per key: the array load_tile returned for it, kept while
                \* the key is not disturbed
    useLog,     \* the resident keys, ordered by their most recent use
                \* (an insertion, or the return by a get hit)
    disturbed,  \* the keys that were ever evicted or written by put, or
                \* whose load failed or did not fit
    evicted,    \* the keys the step just taken removed from the cache
    nops,       \* number of calls started
    \* ---- ViewerController (controller.py) ----
    displayed,  \* image_layer.data: the composite shown, [job, shape, level, table]
    nevents,    \* number of view-change events delivered to on_view_changed
    aborted,    \* the events whose handler raised while fetching the tiles
    jobs,       \* the futures submitted to the executor, in submission order
    poolQueue,  \* the executor's work queue: jobs no worker has taken yet
    uiQueue,    \* the swaps scheduled with QTimer.singleShot, not yet run
    errLog,     \* the jobs whose failure on_done reported
    cbErr,      \* the jobs whose on_done callback itself raised
    doneOrder,  \* the jobs in the order in which their swap was scheduled
    \* ---- batch registration (registration.py) ----
    x_coords,   \* fov -> nominal x (stage coordinate)
    y_coords,   \* fov -> nominal y
    shifts,     \* the measured shift (dy, dx), in pixels, of each neighbor pair
    dx_corr,    \* the x correction of every tile, as numerators over one denominator
    dy_corr,    \* the y correction of every tile
    refined,    \* the rows of coordinates_refined.csv
    regPc,      \* how far main() has run
    \* ---- phase_correlation (registration.py) ----
    imgA,       \* the image A, [h, w, px]: px[y][x] is the pixel value
    imgB,       \* the image B
    corr,       \* the correlation surface: corr[y][x], or <<>> before it is computed
    peak,       \* (peak_y, peak_x)
    measured,   \* the returned (dy, dx), each a fraction <<num, den>>
    pcStep,     \* how far phase_correlation has run
    \* ---- TileRenderer.composite (renderer.py) ----
    rndTable,   \* the offsets table: rows [fov, dx, dy]
    rndLevel,   \* the downsample level
    rndShape,   \* the shape (H, W) of the tiles in the cache
    canvas,     \* the composite: canvas[y][x], or <<>> before it is allocated
    rndNext,    \* the row of the table to paste next
    rndStep,    \* how far composite has run
    \* ---- PyramidBuilder.build_levels (pyramid.py) ----
    pyrGrid,       \* the tiles behind the overview: [n, tile_h, tile_w]
    zoom_levels,   \* self.zoom_levels
    base_overview, \* the overview loaded at level 1: [arr, chunks]
    levels,        \* the dict built so far: factor -> [arr, chunks]
    pyrNext,       \* the entry of zoom_levels the loop handles next
    pyrStep,       \* how far build_levels has run
    \* ---- DataSource.load_tile, load_overview (datasource.py) ----
    tiles_index,   \* self.tiles_index: (fov, z) -> list of (suffix, file)
    dsCall,        \* the call: [op, fov, z, level]
    dsLooked,      \* whether the call has looked a key up in tiles_index
    dsResult,      \* what the call returned or raised
    dsStep         \* how far the call has run

cacheVars == <<cache, lock, pc, arg, ret, loads, loaded, useLog, disturbed, evicted, nops>>

ctlVars == <<displayed, nevents, aborted, jobs, poolQueue, uiQueue, errLog, cbErr, doneOrder>>

regVars == <<x_coords, y_coords, shifts, dx_corr, dy_corr, refined, regPc>>

corrVars == <<imgA, imgB, corr, peak, measured, pcStep>>

rndVars == <<rndTable, rndLevel, rndShape, canvas, rndNext, rndStep>>

pyrVars == <<pyrGrid, zoom_levels, base_overview, levels, pyrNext, pyrStep>>

dsVars == <<tiles_index, dsCall, dsLooked, dsResult, dsStep>>

vars == <<cacheVars, ctlVars, regVars, corrVars, rndVars, pyrVars, dsVars>>

\* What a step of one component leaves unchanged: the other components.
exceptCache == <<ctlVars, regVars, corrVars, rndVars, pyrVars, dsVars>>
exceptCtl == <<cacheVars, regVars, corrVars, rndVars, pyrVars, dsVars>>
exceptReg == <<cacheVars, ctlVars, corrVars, rndVars, pyrVars, dsVars>>
exceptCorr == <<cacheVars, ctlVars, regVars, rndVars, pyrVars, dsVars>>
exceptRnd == <<cacheVars, ctlVars, regVars, corrVars, pyrVars, dsVars>>
exceptPyr == <<cacheVars, ctlVars, regVars, corrVars, rndVars, dsVars>>
exceptDs == <<cacheVars, ctlVars, regVars, corrVars, rndVars, pyrVars>>

(***************************************************************************)
(* Values.                                                                 *)
(***************************************************************************)
Keys == 1..NumKeys
Threads == 1..NumThreads
NoThread == 0
NoTile == 0
\* A numpy array is modelled by its identity, which fixes its byte size:
\* array a has a.nbytes = a.  Arrays of MaxBytes + 1 bytes exceed the budget.
Arrays == 1..(MaxBytes + 1)
nbytes(a) == a
\* a value that is no numpy array, and load_tile raising instead of returning
NotArray == -1
IOFailure == -2
\* how a call ends
Returned == "returned"
TypeErr == "TypeError"
ValueErr == "ValueError"
IOErr == "IOError"
\* the value of a call that returns None or raises
None == 0

isinstance_ndarray(v) == v \in Arrays

(***************************************************************************)
(* Pure helpers on sequences.                                              *)
(***************************************************************************)
RECURSIVE SeqRemove(_, _)
SeqRemove(s, x) ==
    IF s = <<>> THEN <<>>
    ELSE IF Head(s) = x THEN SeqRemove(Tail(s), x)
    ELSE <<Head(s)>> \o SeqRemove(Tail(s), x)

RECURSIVE SumBytes(_, _)
SumBytes(d, ks) ==
    IF ks = {} THEN 0
    ELSE LET k == CHOOSE x \in ks : TRUE
         IN  (IF d[k] = NoTile THEN 0 ELSE nbytes(d[k])) + SumBytes(d, ks \ {k})

(***************************************************************************)
(* cachetools.LRUCache(maxsize=max_bytes, getsizeof=arr.nbytes), as        *)
(* TileCache uses it.  c is the cache state [data, order, currsize]:       *)
(* data maps each key to its array (NoTile when absent), order lists the   *)
(* resident keys from least to most recently used, currsize is the         *)
(* cache's own running total of the resident sizes.                        *)
(***************************************************************************)
EmptyCache ==
    [data |-> [k \in Keys |-> NoTile], order |-> <<>>, currsize |-> 0]

Contains(c, k) == c.data[k] # NoTile

Resident(c) == {k \in Keys : Contains(c, k)}

\* LRUCache.__update: move the key to the most-recently-used end.
Touch(c, k) == [c EXCEPT !.order = Append(SeqRemove(c.order, k), k)]

\* LRUCache.popitem: remove the least recently used entry.
PopMostRecent(c) ==
    LET k == c.order[Len(c.order)]
    IN  [data |-> [c.data EXCEPT ![k] = NoTile],
         order |-> SubSeq(c.order, 1, Len(c.order) - 1),
         currsize |-> c.currsize - nbytes(c.data[k])]
PopItem(c) ==
    LET k == Head(c.order)
    IN  [data |-> [c.data EXCEPT ![k] = NoTile],
         order |-> Tail(c.order),
         currsize |-> c.currsize - nbytes(c.data[k])]

\* Cache.__setitem__: while self.currsize + size > maxsize: self.popitem()
NeedsRoomAfterInsert(c, size) == c.currsize > MaxBytes
NeedsRoom(c, size) == c.currsize + size > MaxBytes

RECURSIVE MakeRoom(_, _)
MakeRoom(c, size) ==
    IF NeedsRoom(c, size) /\ c.order # <<>>
    THEN MakeRoom(PopItem(c), size)
    ELSE c

\* self.cache[key] = tile, for a tile of at most maxsize bytes:
\* Cache.__setitem__ followed by LRUCache.__update.
SetItem(c, k, v) ==
    LET size == nbytes(v)
        c1 == IF ~Contains(c, k) \/ nbytes(c.data[k]) < size
              THEN MakeRoom(c, size)
              ELSE c
        diffsize == IF Contains(c1, k) THEN size - nbytes(c1.data[k]) ELSE size
        c2 == [c1 EXCEPT !.data[k] = v, !.currsize = c1.currsize + diffsize]
    IN  Touch(c2, k)

\* The keys an insertion removes from the cache.
Evicted(c, c2) == Resident(c) \ Resident(c2)

\* The record of uses after key k was used and the keys gone were evicted.
RECURSIVE SeqWithout(_, _)
SeqWithout(s, gone) ==
    IF s = <<>> THEN <<>>
    ELSE IF Head(s) \in gone THEN SeqWithout(Tail(s), gone)
    ELSE <<Head(s)>> \o SeqWithout(Tail(s), gone)

Used(log, k, gone) == Append(SeqWithout(log, gone \cup {k}), k)

\* The loads remembered once the keys in ks are disturbed.
Forget(ld, ks) == [k \in Keys |-> IF k \in ks THEN NoTile ELSE ld[k]]

(***************************************************************************)
(* TileCache: get and put, called by client threads.                       *)
(***************************************************************************)
NoCall == [op |-> "none", key |-> 0, tile |-> NoTile, raced |-> FALSE]
NoRet == [op |-> "none", key |-> 0, given |-> NoTile, how |-> "none",
          val |-> None, raced |-> FALSE]

\* The outcome of thread t's call: it returned val, or raised `how`.
Outcome(t, how, val) ==
    [op |-> arg[t].op, key |-> arg[t].key,
     given |-> IF arg[t].op = "put" THEN arg[t].tile ELSE NoTile,
     how |-> how, val |-> val, raced |-> arg[t].raced]

\* What DataSource.load_tile can do: return an array, return something that
\* is no array (a stub or subclass), or raise.
LoadOutcomes == Arrays \cup {NotArray, IOFailure}

\* with self._lock: the lock is free
LockIgnored(t) == TRUE
CanAcquire(t) == lock = NoThread

CacheStart ==
    /\ cache = EmptyCache
    /\ lock = NoThread
    /\ pc = [t \in Threads |-> "idle"]
    /\ arg = [t \in Threads |-> NoCall]
    /\ ret = NoRet
    /\ loads = [k \in Keys |-> 0]
    /\ loaded = [k \in Keys |-> NoTile]
    /\ useLog = <<>>
    /\ disturbed = {}
    /\ evicted = {}
    /\ nops = 0

\* Thread t calls get for key k while the key is not resident and another
\* thread is inside get for the same key.
Racing(t, k) ==
    /\ ~Contains(cache, k)
    /\ \E u \in Threads \ {t} : arg[u].op = "get" /\ arg[u].key = k

\* A thread calls get(fov, z, level): key = (int(fov), int(z), int(level)).
CallGet(t, k) ==
    /\ pc[t] = "idle"
    /\ nops < MaxOps
    /\ nops' = nops + 1
    /\ arg' = [arg EXCEPT ![t] = [op |-> "get", key |-> k, tile |-> NoTile,
                                  raced |-> Racing(t, k)]]
    /\ pc' = [pc EXCEPT ![t] = "get_lock"]
    /\ ret' = NoRet
    /\ evicted' = {}
    /\ UNCHANGED <<cache, lock, loads, loaded, useLog, disturbed>>

\* get: with self._lock
GetAcquire(t) ==
    /\ pc[t] = "get_lock"
    /\ CanAcquire(t)
    /\ lock' = t
    /\ pc' = [pc EXCEPT ![t] = "get_check"]
    /\ ret' = NoRet
    /\ evicted' = {}
    /\ UNCHANGED <<cache, arg, loads, loaded, useLog, disturbed, nops>>

\* get: if key in self.cache: return self.cache[key]
GetHitNoTouch(t) ==
    LET k == arg[t].key
    IN  /\ pc[t] = "get_check"
        /\ Contains(cache, k)
        /\ ret' = Outcome(t, Returned, cache.data[k])
        /\ useLog' = Used(useLog, k, {})
        /\ lock' = NoThread
        /\ pc' = [pc EXCEPT ![t] = "idle"]
        /\ arg' = [arg EXCEPT ![t] = NoCall]
        /\ evicted' = {}
        /\ UNCHANGED <<cache, loads, loaded, disturbed, nops>>
GetHit(t) ==
    LET k == arg[t].key
    IN  /\ pc[t] = "get_check"
        /\ Contains(cache, k)
        /\ ret' = Outcome(t, Returned, cache.data[k])
        /\ cache' = Touch(cache, k)
        /\ useLog' = Used(useLog, k, {})
        /\ lock' = NoThread
        /\ pc' = [pc EXCEPT ![t] = "idle"]
        /\ arg' = [arg EXCEPT ![t] = NoCall]
        /\ evicted' = {}
        /\ UNCHANGED <<loads, loaded, disturbed, nops>>

\* get: the key is not resident, go on to load it (still under the lock)
GetMiss(t) ==
    /\ pc[t] = "get_check"
    /\ ~Contains(cache, arg[t].key)
    /\ pc' = [pc EXCEPT ![t] = "get_load"]
    /\ ret' = NoRet
    /\ evicted' = {}
    /\ UNCHANGED <<cache, lock, arg, loads, loaded, useLog, disturbed, nops>>

\* get: tile = self.datasource.load_tile(fov, z, level); an exception of
\* load_tile leaves the with-block, which releases the lock.
GetLoadKeepsLock(t) ==
    LET k == arg[t].key
    IN  /\ pc[t] = "get_load"
        /\ loads' = [loads EXCEPT ![k] = @ + 1]
        /\ \E out \in LoadOutcomes :
              IF out = IOFailure
              THEN /\ ret' = Outcome(t, IOErr, None)
                   /\ lock' = lock
                   /\ pc' = [pc EXCEPT ![t] = "idle"]
                   /\ arg' = [arg EXCEPT ![t] = NoCall]
                   /\ disturbed' = disturbed \cup {k}
                   /\ loaded' = Forget(loaded, {k})
              ELSE /\ arg' = [arg EXCEPT ![t].tile = out]
                   /\ pc' = [pc EXCEPT ![t] = "get_store"]
                   /\ loaded' = IF k \in disturbed THEN loaded
                                ELSE [loaded EXCEPT ![k] = out]
                   /\ ret' = NoRet
                   /\ UNCHANGED <<lock, disturbed>>
        /\ evicted' = {}
        /\ UNCHANGED <<cache, useLog, nops>>
GetLoad(t) ==
    LET k == arg[t].key
    IN  /\ pc[t] = "get_load"
        /\ loads' = [loads EXCEPT ![k] = @ + 1]
        /\ \E out \in LoadOutcomes :
              IF out = IOFailure
              THEN /\ ret' = Outcome(t, IOErr, None)
                   /\ lock' = NoThread
                   /\ pc' = [pc EXCEPT ![t] = "idle"]
                   /\ arg' = [arg EXCEPT ![t] = NoCall]
                   /\ disturbed' = disturbed \cup {k}
                   /\ loaded' = Forget(loaded, {k})
              ELSE /\ arg' = [arg EXCEPT ![t].tile = out]
                   /\ pc' = [pc EXCEPT ![t] = "get_store"]
                   /\ loaded' = IF k \in disturbed THEN loaded
                                ELSE [loaded EXCEPT ![k] = out]
                   /\ ret' = NoRet
                   /\ UNCHANGED <<lock, disturbed>>
        /\ evicted' = {}
        /\ UNCHANGED <<cache, useLog, nops>>

\* get: the type and size checks, self.cache[key] = tile, return tile
GetStoreEvictsFirst(t) ==
    LET k == arg[t].key
        tile == arg[t].tile
    IN  /\ pc[t] = "get_store"
        /\ IF ~isinstance_ndarray(tile)
           THEN /\ ret' = Outcome(t, TypeErr, None)
                /\ disturbed' = disturbed \cup {k}
                /\ loaded' = Forget(loaded, {k})
                /\ evicted' = {}
                /\ UNCHANGED <<cache, useLog>>
           ELSE IF nbytes(tile) > MaxBytes
           THEN /\ ret' = Outcome(t, ValueErr, None)
                /\ disturbed' = disturbed \cup {k}
                /\ loaded' = Forget(loaded, {k})
                /\ cache' = MakeRoom(cache, nbytes(tile))
                /\ evicted' = Evicted(cache, cache')
                /\ useLog' = SeqWithout(useLog, Evicted(cache, cache'))
           ELSE /\ cache' = SetItem(cache, k, tile)
                /\ useLog' = Used(useLog, k, Evicted(cache, cache'))
                /\ evicted' = Evicted(cache, cache')
                /\ disturbed' = disturbed \cup Evicted(cache, cache')
                /\ loaded' = Forget(loaded, Evicted(cache, cache'))
                /\ ret' = Outcome(t, Returned, tile)
        /\ lock' = NoThread
        /\ pc' = [pc EXCEPT ![t] = "idle"]
        /\ arg' = [arg EXCEPT ![t] = NoCall]
        /\ UNCHANGED <<loads, nops>>
GetStore(t) ==
    LET k == arg[t].key
        tile == arg[t].tile
    IN  /\ pc[t] = "get_store"
        /\ IF ~isinstance_ndarray(tile)
           THEN /\ ret' = Outcome(t, TypeErr, None)
                /\ disturbed' = disturbed \cup {k}
                /\ loaded' = Forget(loaded, {k})
                /\ evicted' = {}
                /\ UNCHANGED <<cache, useLog>>
           ELSE IF nbytes(tile) > MaxBytes
           THEN /\ ret' = Outcome(t, ValueErr, None)
                /\ disturbed' = disturbed \cup {k}
                /\ loaded' = Forget(loaded, {k})
                /\ evicted' = {}
                /\ UNCHANGED <<cache, useLog>>
           ELSE /\ cache' = SetItem(cache, k, tile)
                /\ useLog' = Used(useLog, k, Evicted(cache, cache'))
                /\ evicted' = Evicted(cache, cache')
                /\ disturbed' = disturbed \cup Evicted(cache, cache')
                /\ loaded' = Forget(loaded, Evicted(cache, cache'))
                /\ ret' = Outcome(t, Returned, tile)
        /\ lock' = NoThread
        /\ pc' = [pc EXCEPT ![t] = "idle"]
        /\ arg' = [arg EXCEPT ![t] = NoCall]
        /\ UNCHANGED <<loads, nops>>

\* put: the type and size checks, made before the lock is taken
PutRejectStores(t, k, v) ==
    /\ pc[t] = "idle"
    /\ nops < MaxOps
    /\ ~isinstance_ndarray(v) \/ nbytes(v) > MaxBytes
    /\ nops' = nops + 1
    /\ ret' = [op |-> "put", key |-> k, given |-> v,
               how |-> IF ~isinstance_ndarray(v) THEN TypeErr ELSE ValueErr,
               val |-> None, raced |-> FALSE]
    /\ cache' = [cache EXCEPT !.data[k] = 1,
                              !.order = Append(SeqRemove(cache.order, k), k)]
    /\ evicted' = {}
    /\ UNCHANGED <<lock, pc, arg, loads, loaded, useLog, disturbed>>
PutReject(t, k, v) ==
    /\ pc[t] = "idle"
    /\ nops < MaxOps
    /\ ~isinstance_ndarray(v) \/ nbytes(v) > MaxBytes
    /\ nops' = nops + 1
    /\ ret' = [op |-> "put", key |-> k, given |-> v,
               how |-> IF ~isinstance_ndarray(v) THEN TypeErr ELSE ValueErr,
               val |-> None, raced |-> FALSE]
    /\ evicted' = {}
    /\ UNCHANGED <<cache, lock, pc, arg, loads, loaded, useLog, disturbed>>

\* put: a valid tile goes on to the lock
CallPut(t, k, v) ==
    /\ pc[t] = "idle"
    /\ nops < MaxOps
    /\ isinstance_ndarray(v) /\ nbytes(v) <= MaxBytes
    /\ nops' = nops + 1
    /\ arg' = [arg EXCEPT ![t] =
                 [op |-> "put", key |-> k, tile |-> v, raced |-> FALSE]]
    /\ pc' = [pc EXCEPT ![t] = "put_lock"]
    /\ ret' = NoRet
    /\ evicted' = {}
    /\ UNCHANGED <<cache, lock, loads, loaded, useLog, disturbed>>

\* put: with self._lock
PutAcquire(t) ==
    /\ pc[t] = "put_lock"
    /\ CanAcquire(t)
    /\ lock' = t
    /\ pc' = [pc EXCEPT ![t] = "put_store"]
    /\ ret' = NoRet
    /\ evicted' = {}
    /\ UNCHANGED <<cache, arg, loads, loaded, useLog, disturbed, nops>>

\* put: self.cache[key] = tile
PutStore(t) ==
    LET k == arg[t].key
    IN  /\ pc[t] = "put_store"
        /\ cache' = SetItem(cache, k, arg[t].tile)
        /\ useLog' = Used(useLog, k, Evicted(cache, cache'))
        /\ evicted' = Evicted(cache, cache')
        /\ disturbed' = disturbed \cup Evicted(cache, cache') \cup {k}
        /\ loaded' = Forget(loaded, Evicted(cache, cache') \cup {k})
        /\ ret' = Outcome(t, Returned, None)
        /\ lock' = NoThread
        /\ pc' = [pc EXCEPT ![t] = "idle"]
        /\ arg' = [arg EXCEPT ![t] = NoCall]
        /\ UNCHANGED <<loads, nops>>

(***************************************************************************)
(* ViewerController: view-change events, background registration jobs and  *)
(* the swap of the displayed image on the UI thread.                       *)
(***************************************************************************)
\* datasource.get_tile_centers(): fov -> (y_center_px, x_center_px), in the
\* iteration order of the dictionary.
TileCenters == <<<<32, 32>>, <<32, 96>>, <<96, 32>>>>
Fovs == 1..Len(TileCenters)

\* Shape (H, W) of every tile, and of the level-16 overview shown by run().
TileShape == <<64, 64>>
OverviewShape == <<8, 8>>

\* The camera states the events are drawn from: center (y, x), and zoom as
\* a fraction <<numerator, denominator>>.
Centers == {<<32, 32>>, <<32, 64>>}
Zooms == {<<1, 8>>, <<6, 1>>, <<12, 1>>}

\* What align_tiles can return for tile i (from 0): the translation
\* (dx, dy) = i * spacing, for one of these spacings.
Spacings == {<<0, 0>>, <<64, 0>>, <<-64, 64>>}

Overview == [job |-> 0, shape |-> OverviewShape, level |-> 16, table |-> <<>>]

\* xmin <= x_c <= xmax and ymin <= y_c <= ymax, with half_h = (h / zoom) / 2
\* and half_w = (w / zoom) / 2, for zoom = z[1] / z[2] > 0.
InViewStrict(fov, center, z, shape) ==
    LET y_c == TileCenters[fov][1]
        x_c == TileCenters[fov][2]
        h == shape[1]
        w == shape[2]
    IN  /\ 2 * z[1] * (center[2] - x_c) < w * z[2]
        /\ 2 * z[1] * (x_c - center[2]) < w * z[2]
        /\ 2 * z[1] * (center[1] - y_c) < h * z[2]
        /\ 2 * z[1] * (y_c - center[1]) < h * z[2]
InView(fov, center, z, shape) ==
    LET y_c == TileCenters[fov][1]
        x_c == TileCenters[fov][2]
        h == shape[1]
        w == shape[2]
    IN  /\ 2 * z[1] * (center[2] - x_c) <= w * z[2]
        /\ 2 * z[1] * (x_c - center[2]) <= w * z[2]
        /\ 2 * z[1] * (center[1] - y_c) <= h * z[2]
        /\ 2 * z[1] * (y_c - center[1]) <= h * z[2]

\* visible_fovs: the fovs in view, in the order of tile_centers.
RECURSIVE VisibleFrom(_, _, _, _)
VisibleFrom(fov, center, z, shape) ==
    IF fov > Len(TileCenters) THEN <<>>
    ELSE (IF InView(fov, center, z, shape) THEN <<fov>> ELSE <<>>)
         \o VisibleFrom(fov + 1, center, z, shape)

VisibleFovsOfOverview(center, z, shape) == VisibleFrom(1, center, z, OverviewShape)
VisibleFovs(center, z, shape) == VisibleFrom(1, center, z, shape)

LevelInclusive(z) ==
    IF z[1] <= 6 * z[2] THEN 4
    ELSE IF z[1] <= 12 * z[2] THEN 8
    ELSE 16

\* The downsample factor picked from the zoom.
Level(z) ==
    IF z[1] < 6 * z[2] THEN 4
    ELSE IF z[1] < 12 * z[2] THEN 8
    ELSE 16

\* int(a / b) for b > 0: the quotient truncated towards zero.
Trunc(a, b) == IF a >= 0 THEN a \div b ELSE -((-a) \div b)

\* int(np.ceil(a / b)) for a >= 0, b > 0.
CeilDiv(a, b) == (a + b - 1) \div b

SetMax(S) == CHOOSE x \in S : \A y \in S : y <= x
SetMin(S) == CHOOSE x \in S : \A y \in S : x <= y

\* The DataFrame align_tiles returns for n tiles: one row per tile, or a
\* frame without columns when there is no tile.
OffsetRows(n, sp) ==
    [i \in 1..n |-> [tile_index |-> i - 1, dx |-> (i - 1) * sp[1], dy |-> (i - 1) * sp[2]]]

\* The shape of TileRenderer.composite(offsets, level).
CompositeShape(rows, level) ==
    IF rows = <<>> THEN <<1, 1>>
    ELSE LET xs == {Trunc(rows[i].dx, level) : i \in 1..Len(rows)}
             ys == {Trunc(rows[i].dy, level) : i \in 1..Len(rows)}
             Hs == CeilDiv(TileShape[1], level)
             Ws == CeilDiv(TileShape[2], level)
         IN  <<(SetMax(ys) - SetMin(ys)) + Hs, (SetMax(xs) - SetMin(xs)) + Ws>>

\* on_done: df["fov"] = df["tile_index"].map(lambda idx: visible_fovs[idx])
WithLatestFov(rows, fovs) ==
    LET latest == jobs[Len(jobs)].fovs
    IN  [i \in 1..Len(rows) |->
            [fov |-> IF rows[i].tile_index + 1 <= Len(latest)
                     THEN latest[rows[i].tile_index + 1] ELSE 0,
             dx |-> rows[i].dx, dy |-> rows[i].dy]]
WithFov(rows, fovs) ==
    [i \in 1..Len(rows) |->
        [fov |-> fovs[rows[i].tile_index + 1], dx |-> rows[i].dx, dy |-> rows[i].dy]]

Pending == [how |-> "pending", rows |-> <<>>]
Raised == [how |-> "raised", rows |-> <<>>]
Frame(rows) == [how |-> "returned", rows |-> rows]

\* The workers busy with a job: running align_tiles, or its done-callbacks.
Busy == {j \in 1..Len(jobs) : jobs[j].st \in {"running", "finished"}}

InFlight == {j \in 1..Len(jobs) : jobs[j].st # "done"}

CtlStart ==
    /\ displayed = Overview
    /\ nevents = 0
    /\ aborted = {}
    /\ jobs = <<>>
    /\ poolQueue = <<>>
    /\ uiQueue = <<>>
    /\ errLog = {}
    /\ cbErr = {}
    /\ doneOrder = <<>>

\* on_view_changed, when fetching a visible tile from the cache raises: the
\* handler ends before anything is submitted.
OnViewChangedFetchFails(center, z) ==
    /\ nevents < MaxEvents
    /\ VisibleFovs(center, z, displayed.shape) # <<>>
    /\ nevents' = nevents + 1
    /\ aborted' = aborted \cup {nevents + 1}
    /\ UNCHANGED <<displayed, jobs, poolQueue, uiQueue, errLog, cbErr, doneOrder>>

\* on_view_changed: select the visible fovs, fetch their tiles, submit
\* align_tiles to the executor and attach on_done.
OnViewChangedCancelling(center, z) ==
    LET visible_fovs == VisibleFovs(center, z, displayed.shape)
        dropped == {poolQueue[i] : i \in 1..Len(poolQueue)}
    IN  /\ nevents < MaxEvents
        /\ nevents' = nevents + 1
        /\ jobs' = Append([j \in 1..Len(jobs) |->
                             IF j \in dropped THEN [jobs[j] EXCEPT !.st = "done"]
                             ELSE jobs[j]],
                          [event |-> nevents + 1, center |-> center, zoom |-> z,
                           layer |-> displayed.shape, fovs |-> visible_fovs,
                           st |-> "queued", result |-> Pending])
        /\ poolQueue' = <<Len(jobs) + 1>>
        /\ UNCHANGED <<displayed, aborted, uiQueue, errLog, cbErr, doneOrder>>
OnViewChanged(center, z) ==
    LET visible_fovs == VisibleFovs(center, z, displayed.shape)
    IN  /\ nevents < MaxEvents
        /\ nevents' = nevents + 1
        /\ jobs' = Append(jobs, [event |-> nevents + 1, center |-> center, zoom |-> z,
                                 layer |-> displayed.shape, fovs |-> visible_fovs,
                                 st |-> "queued", result |-> Pending])
        /\ poolQueue' = Append(poolQueue, Len(jobs) + 1)
        /\ UNCHANGED <<displayed, aborted, uiQueue, errLog, cbErr, doneOrder>>

\* A free worker of the pool takes the oldest queued job.
WorkerTakes ==
    /\ poolQueue # <<>>
    /\ Cardinality(Busy) < MaxWorkers
    /\ jobs' = [jobs EXCEPT ![Head(poolQueue)].st = "running"]
    /\ poolQueue' = Tail(poolQueue)
    /\ UNCHANGED <<displayed, nevents, aborted, uiQueue, errLog, cbErr, doneOrder>>

\* align_tiles returns its DataFrame or raises: the future is done.
AlignEnds(j) ==
    /\ j \in 1..Len(jobs)
    /\ jobs[j].st = "running"
    /\ \E res \in {Raised} \cup {Frame(OffsetRows(Len(jobs[j].fovs), sp)) : sp \in Spacings} :
          jobs' = [jobs EXCEPT ![j].st = "finished", ![j].result = res]
    /\ UNCHANGED <<displayed, nevents, aborted, poolQueue, uiQueue, errLog, cbErr, doneOrder>>

\* on_done when the future holds an exception: report it and return.
OnDoneSwallows(j) ==
    /\ j \in 1..Len(jobs)
    /\ jobs[j].st = "finished"
    /\ jobs[j].result.how = "raised"
    /\ jobs' = [jobs EXCEPT ![j].st = "done"]
    /\ UNCHANGED <<displayed, nevents, aborted, poolQueue, uiQueue, errLog, cbErr, doneOrder>>
OnDoneFailed(j) ==
    /\ j \in 1..Len(jobs)
    /\ jobs[j].st = "finished"
    /\ jobs[j].result.how = "raised"
    /\ errLog' = errLog \cup {j}
    /\ jobs' = [jobs EXCEPT ![j].st = "done"]
    /\ UNCHANGED <<displayed, nevents, aborted, poolQueue, uiQueue, cbErr, doneOrder>>

\* on_done when the callback itself raises: the frame of an empty tile list
\* has no tile_index column, or a tile cannot be fetched or pasted by
\* composite.  The executor logs the exception; nothing is scheduled.
OnDoneRaises(j) ==
    /\ j \in 1..Len(jobs)
    /\ jobs[j].st = "finished"
    /\ jobs[j].result.how = "returned"
    /\ cbErr' = cbErr \cup {j}
    /\ jobs' = [jobs EXCEPT ![j].st = "done"]
    /\ UNCHANGED <<displayed, nevents, aborted, poolQueue, uiQueue, errLog, doneOrder>>

\* The composite on_done builds for job j.
CompositeOf(j) ==
    LET level == Level(jobs[j].zoom)
        offsets == WithFov(jobs[j].result.rows, jobs[j].fovs)
    IN  [job |-> j, shape |-> CompositeShape(offsets, level), level |-> level,
         table |-> offsets]

\* on_done: map the rows to fovs, pick the level, composite, and schedule
\* the swap on the UI thread with QTimer.singleShot(0, ...).
OnDoneWritesLayer(j) ==
    /\ j \in 1..Len(jobs)
    /\ jobs[j].st = "finished"
    /\ jobs[j].result.how = "returned"
    /\ jobs[j].fovs # <<>>
    /\ displayed' = CompositeOf(j)
    /\ doneOrder' = Append(doneOrder, j)
    /\ jobs' = [jobs EXCEPT ![j].st = "done"]
    /\ UNCHANGED <<nevents, aborted, poolQueue, uiQueue, errLog, cbErr>>
OnDone(j) ==
    /\ j \in 1..Len(jobs)
    /\ jobs[j].st = "finished"
    /\ jobs[j].result.how = "returned"
    /\ jobs[j].fovs # <<>>
    /\ uiQueue' = Append(uiQueue, CompositeOf(j))
    /\ doneOrder' = Append(doneOrder, j)
    /\ jobs' = [jobs EXCEPT ![j].st = "done"]
    /\ UNCHANGED <<displayed, nevents, aborted, poolQueue, errLog, cbErr>>

\* The UI thread runs the oldest scheduled swap:
\* setattr(self.image_layer, "data", comp).
SwapUnlessStale ==
    /\ uiQueue # <<>>
    /\ displayed' = IF Head(uiQueue).job > displayed.job THEN Head(uiQueue) ELSE displayed
    /\ uiQueue' = Tail(uiQueue)
    /\ UNCHANGED <<nevents, aborted, jobs, poolQueue, errLog, cbErr, doneOrder>>
Swap ==
    /\ uiQueue # <<>>
    /\ displayed' = Head(uiQueue)
    /\ uiQueue' = Tail(uiQueue)
    /\ UNCHANGED <<nevents, aborted, jobs, poolQueue, errLog, cbErr, doneOrder>>

(***************************************************************************)
(* registration.py: grid discovery, pairwise shifts and the global         *)
(* least-squares alignment of main().  Lengths are integers in one unit;   *)
(* a correction is a fraction, kept as numerators over one denominator.    *)
(***************************************************************************)
\* fovs: the fov column of coordinates.csv, in file order.
fovs == [i \in 1..NumTiles |-> i]

\* pixel_size_mm, and the tile height H_tile in pixels.
PixelSize == 2
TileHeightPx == 2

\* The nominal coordinates the tables are drawn from.
XCoords == {0, 2}
YCoords == {0, 2, 4, 8}

\* The error of a measured shift, per axis, in pixels.
Errors == 0..MaxError

Abs(n) == IF n < 0 THEN -n ELSE n

\* idx_map = {f: i for i, f in enumerate(fovs)}, counted from 1.
idx_map(f) == CHOOSE i \in 1..Len(fovs) :
                 /\ fovs[i] = f
                 /\ \A k \in 1..Len(fovs) : fovs[k] = f => k <= i

\* sorted(s, key=...) and list.sort(key=...): stable, ascending.
RECURSIVE InsertBy(_, _, _)
InsertBy(s, f, key) ==
    IF s = <<>> THEN <<f>>
    ELSE IF key[Head(s)] <= key[f] THEN <<Head(s)>> \o InsertBy(Tail(s), f, key)
    ELSE <<f>> \o s

RECURSIVE SortedBy(_, _)
SortedBy(s, key) ==
    IF s = <<>> THEN <<>>
    ELSE InsertBy(SortedBy(SubSeq(s, 1, Len(s) - 1), key), s[Len(s)], key)

RECURSIVE RowWalkStrict(_, _, _, _, _)
RowWalkStrict(s, y, tile_height, rows, current) ==
    IF s = <<>> THEN (IF current # <<>> THEN Append(rows, current) ELSE rows)
    ELSE LET fov == Head(s)
         IN  IF \/ current = <<>>
                \/ 2 * Abs(y[fov] - y[current[Len(current)]]) < tile_height
             THEN RowWalkStrict(Tail(s), y, tile_height, rows, Append(current, fov))
             ELSE RowWalkStrict(Tail(s), y, tile_height, Append(rows, current), <<fov>>)

\* The loop of group_rows_by_y over sorted_fovs: the row being filled is
\* current, and prev_y is the y of its last tile.
RECURSIVE RowWalk(_, _, _, _, _)
RowWalk(s, y, tile_height, rows, current) ==
    IF s = <<>> THEN (IF current # <<>> THEN Append(rows, current) ELSE rows)
    ELSE LET fov == Head(s)
         IN  IF \/ current = <<>>
                \/ 2 * Abs(y[fov] - y[current[Len(current)]]) <= tile_height
             THEN RowWalk(Tail(s), y, tile_height, rows, Append(current, fov))
             ELSE RowWalk(Tail(s), y, tile_height, Append(rows, current), <<fov>>)

group_rows_by_y(fs, y, x, tile_height) ==
    LET walked == RowWalk(SortedBy(fs, y), y, tile_height, <<>>, <<>>)
    IN  [r \in 1..Len(walked) |-> SortedBy(walked[r], x)]

ClosestIsFirst(below_row, x, x_curr) == below_row[1]

\* min(below_row, key=lambda f: abs(x_coords[f] - x_curr)): the first tile
\* of the row at the least distance.
Closest(below_row, x, x_curr) ==
    LET i == CHOOSE i \in 1..Len(below_row) :
                 /\ \A k \in 1..Len(below_row) :
                       Abs(x[below_row[i]] - x_curr) <= Abs(x[below_row[k]] - x_curr)
                 /\ \A k \in 1..(i - 1) :
                       Abs(x[below_row[k]] - x_curr) > Abs(x[below_row[i]] - x_curr)
    IN  below_row[i]

\* The pairs appended for the tile at column c of row r: its right
\* neighbor, then the tile below.
PairsOfRightOnly(rows, x, r, c) ==
    LET row == rows[r]
        fov == row[c]
    IN  IF c < Len(row) THEN <<<<fov, row[c + 1]>>>> ELSE <<>>
PairsOf(rows, x, r, c) ==
    LET row == rows[r]
        fov == row[c]
    IN  (IF c < Len(row) THEN <<<<fov, row[c + 1]>>>> ELSE <<>>)
        \o (IF r < Len(rows) THEN <<<<fov, Closest(rows[r + 1], x, x[fov])>>>> ELSE <<>>)

RECURSIVE PairsFrom(_, _, _, _)
PairsFrom(rows, x, r, c) ==
    IF r > Len(rows) THEN <<>>
    ELSE IF c > Len(rows[r]) THEN PairsFrom(rows, x, r + 1, 1)
    ELSE PairsOf(rows, x, r, c) \o PairsFrom(rows, x, r, c + 1)

neighbor_pairs(x, y) ==
    PairsFrom(group_rows_by_y(fovs, y, x, TileHeightPx * PixelSize), x, 1, 1)

\* sum of a sequence of integers
RECURSIVE SeqSum(_)
SeqSum(s) == IF s = <<>> THEN 0 ELSE Head(s) + SeqSum(Tail(s))

\* row = [0] * N; row[i], row[j] = -1, 1
EdgeRow(i, j) == [k \in 1..NumTiles |-> IF k = j THEN 1 ELSE IF k = i THEN -1 ELSE 0]

\* row = [0] * N; row[anchor] = 1
AnchorRow == [k \in 1..NumTiles |-> IF k = idx_map(fovs[1]) THEN 1 ELSE 0]

\* A_x (and A_y): one row per measured pair, then the anchor row.
DesignMatrix(sh) ==
    [e \in 1..Len(sh) |-> EdgeRow(idx_map(sh[e].fa), idx_map(sh[e].fb))] \o <<AnchorRow>>

\* dx_mm - stage_dx: the measured shift in length units less the nominal
\* coordinate difference.
ResidualInPixels(shift_px, stage) == shift_px - stage
Residual(shift_px, stage) == shift_px * PixelSize - stage

\* b_x and b_y: one residual per measured pair, then 0 for the anchor.
b_x_from_origin(sh, x) ==
    [e \in 1..Len(sh) |-> Residual(sh[e].dx, x[sh[e].fb])] \o <<0>>
b_x_of(sh, x) ==
    [e \in 1..Len(sh) |-> Residual(sh[e].dx, x[sh[e].fb] - x[sh[e].fa])] \o <<0>>
b_y_of(sh, y) ==
    [e \in 1..Len(sh) |-> Residual(sh[e].dy, y[sh[e].fb] - y[sh[e].fa])] \o <<0>>

\* The normal equations (A^T A) x = A^T b of the least-squares problem.
Gram(A) ==
    [i \in 1..NumTiles |-> [j \in 1..NumTiles |->
        SeqSum([r \in 1..Len(A) |-> A[r][i] * A[r][j]])]]
Moment(A, b) ==
    [i \in 1..NumTiles |-> SeqSum([r \in 1..Len(A) |-> A[r][i] * b[r]])]

RemoveAt(s, k) == SubSeq(s, 1, k - 1) \o SubSeq(s, k + 1, Len(s))

\* The determinant of the rows rs and columns cs of M, expanded along the
\* first row.
RECURSIVE Det(_, _, _)
Det(M, rs, cs) ==
    IF rs = <<>> THEN 1
    ELSE SeqSum([k \in 1..Len(cs) |->
            (IF k % 2 = 1 THEN 1 ELSE -1) * M[Head(rs)][cs[k]]
                * Det(M, Tail(rs), RemoveAt(cs, k))])

Indices == [i \in 1..NumTiles |-> i]

\* M with column i replaced by the vector c.
WithColumn(M, i, c) ==
    [r \in 1..NumTiles |-> [k \in 1..NumTiles |-> IF k = i THEN c[r] ELSE M[r][k]]]

\* The unknowns a row of A ties together, and everything tied to S.
Linked(A, i, j) == \E r \in 1..Len(A) : A[r][i] # 0 /\ A[r][j] # 0

RECURSIVE Closure(_, _)
Closure(A, S) ==
    LET T == S \cup {j \in 1..NumTiles : \E i \in S : Linked(A, i, j)}
    IN  IF T = S THEN S ELSE Closure(A, T)

\* The unknowns some row fixes on its own (the anchor row), and the
\* unknowns no chain of rows ties to one of those.
Pinned(A) ==
    {i \in 1..NumTiles : \E r \in 1..Len(A) :
        A[r][i] # 0 /\ \A k \in 1..NumTiles : k # i => A[r][k] = 0}
Floating(A) == (1..NumTiles) \ Closure(A, Pinned(A))

\* One row per group of floating unknowns, with 1 at each unknown of the
\* group: the directions A leaves free.  The minimum-norm solution has no
\* part along them.
RECURSIVE FreeRows(_, _)
FreeRows(A, S) ==
    IF S = {} THEN <<>>
    ELSE LET i == CHOOSE i \in S : \A k \in S : i <= k
             group == Closure(A, {i})
         IN  <<[k \in 1..NumTiles |-> IF k \in group THEN 1 ELSE 0]>>
             \o FreeRows(A, S \ group)

\* np.linalg.lstsq(A, b, rcond=None)[0]: the least-squares solution of
\* least norm.  It is the one solution of the normal equations that sums
\* to zero over every group of floating unknowns; by Cramer's rule,
\* x[i] = num[i] / den.
lstsq(A, b) ==
    LET free == FreeRows(A, Floating(A))
        M == Gram(A \o free)
        c == Moment(A, b)
    IN  [num |-> [i \in 1..NumTiles |-> Det(WithColumn(M, i, c), Indices, Indices)],
         den |-> Det(M, Indices, Indices)]

NoCorr == [num |-> <<>>, den |-> 1]

\* No overview, and no result of a call.
NoOverview == [arr |-> <<>>, chunks |-> <<<<>>, <<>>>>]
NoResult == [ok |-> "none"]

\* build_levels has not been called.
PyrNotRun ==
    /\ pyrGrid = [n |-> 0, tile_h |-> 0, tile_w |-> 0]
    /\ zoom_levels = <<>>
    /\ base_overview = NoOverview
    /\ levels = <<>>
    /\ pyrNext = 1
    /\ pyrStep = "none"

\* No method of the DataSource has been called.
DsNotRun ==
    /\ tiles_index = <<>>
    /\ dsCall = [op |-> "none", fov |-> 0, z |-> 0, level |-> 1]
    /\ dsLooked = FALSE
    /\ dsResult = NoResult
    /\ dsStep = "none"

\* composite has not been called.
RndNotRun ==
    /\ rndTable = <<>>
    /\ rndLevel = 1
    /\ rndShape = <<0, 0>>
    /\ canvas = <<>>
    /\ rndNext = 1
    /\ rndStep = "none"

\* None of the three has been called.
ViewerNotRun == RndNotRun /\ PyrNotRun /\ DsNotRun

\* phase_correlation has not been called.
NoImage == [h |-> 0, w |-> 0, px |-> <<>>]

CorrNotRun ==
    /\ imgA = NoImage
    /\ imgB = NoImage
    /\ corr = <<>>
    /\ peak = <<0, 0>>
    /\ measured = <<>>
    /\ pcStep = "none"

RegNotRun ==
    /\ x_coords = <<>>
    /\ y_coords = <<>>
    /\ shifts = <<>>
    /\ dx_corr = NoCorr
    /\ dy_corr = NoCorr
    /\ refined = <<>>
    /\ regPc = "none"

\* main() has read coordinates.csv.
InitReg ==
    /\ x_coords \in [1..NumTiles -> XCoords]
    /\ y_coords \in [1..NumTiles -> YCoords]
    /\ shifts = <<>>
    /\ dx_corr = NoCorr
    /\ dy_corr = NoCorr
    /\ refined = <<>>
    /\ regPc = "loaded"
    /\ CacheStart
    /\ CtlStart
    /\ CorrNotRun
    /\ ViewerNotRun

\* The pairs are built and phase_correlation measures each of them: the
\* nominal spacing in pixels, off by the error of the measurement.
ComputeShifts ==
    /\ regPc = "loaded"
    /\ LET pairs == neighbor_pairs(x_coords, y_coords)
       IN  \E err \in [1..Len(pairs) -> Errors \X Errors] :
              shifts' = [e \in 1..Len(pairs) |->
                  [fa |-> pairs[e][1], fb |-> pairs[e][2],
                   dy |-> (y_coords[pairs[e][2]] - y_coords[pairs[e][1]]) \div PixelSize
                            + err[e][1],
                   dx |-> (x_coords[pairs[e][2]] - x_coords[pairs[e][1]]) \div PixelSize
                            + err[e][2]]]
    /\ regPc' = "measured"
    /\ UNCHANGED <<x_coords, y_coords, dx_corr, dy_corr, refined>>

\* The global least-squares alignment, one system per axis.
BundleAdjust ==
    /\ regPc = "measured"
    /\ dx_corr' = lstsq(DesignMatrix(shifts), b_x_of(shifts, x_coords))
    /\ dy_corr' = lstsq(DesignMatrix(shifts), b_y_of(shifts, y_coords))
    /\ regPc' = "solved"
    /\ UNCHANGED <<x_coords, y_coords, shifts, refined>>

\* df_out: x_coords[f] + dx_corr[idx_map[f]], as a fraction <<num, den>>.
WriteRefined ==
    /\ regPc = "solved"
    /\ refined' = [i \in 1..Len(fovs) |->
          [fov |-> fovs[i],
           x |-> <<x_coords[fovs[i]] * dx_corr.den + dx_corr.num[idx_map(fovs[i])], dx_corr.den>>,
           y |-> <<y_coords[fovs[i]] * dy_corr.den + dy_corr.num[idx_map(fovs[i])], dy_corr.den>>]]
    /\ regPc' = "written"
    /\ UNCHANGED <<x_coords, y_coords, shifts, dx_corr, dy_corr>>

NextReg ==
    \/ ComputeShifts /\ UNCHANGED exceptReg
    \/ BundleAdjust /\ UNCHANGED exceptReg
    \/ WriteRefined /\ UNCHANGED exceptReg

SpecReg == InitReg /\ [][NextReg]_vars

\* The edge sets the alignment block of main() is given on its own: any
\* set of pairs (fa, fb) of distinct tiles, here with fa < fb.
PairSets == SUBSET {p \in (1..NumTiles) \X (1..NumTiles) : p[1] < p[2]}

\* The keys of a dict of pairs in insertion order, here ascending.
RECURSIVE PairSeq(_)
PairSeq(P) ==
    IF P = {} THEN <<>>
    ELSE LET p == CHOOSE p \in P : \A q \in P :
                     p[1] < q[1] \/ (p[1] = q[1] /\ p[2] <= q[2])
         IN  <<p>> \o PairSeq(P \ {p})

\* The nominal spacing of a pair in pixels, off by the error err.
MeasuredShift(p, x, y, err) ==
    [fa |-> p[1], fb |-> p[2],
     dy |-> (y[p[2]] - y[p[1]]) \div PixelSize + err[1],
     dx |-> (x[p[2]] - x[p[1]]) \div PixelSize + err[2]]

\* The alignment block of main() starts from a coordinate table and a dict
\* of measured shifts.
InitBA ==
    /\ x_coords \in [1..NumTiles -> XCoords]
    /\ y_coords \in [1..NumTiles -> XCoords]
    /\ \E P \in PairSets :
          LET pairs == PairSeq(P)
          IN  \E err \in [1..Len(pairs) -> Errors \X Errors] :
                 shifts = [e \in 1..Len(pairs) |->
                              MeasuredShift(pairs[e], x_coords, y_coords, err[e])]
    /\ dx_corr = NoCorr
    /\ dy_corr = NoCorr
    /\ refined = <<>>
    /\ regPc = "measured"
    /\ CacheStart
    /\ CtlStart
    /\ CorrNotRun
    /\ ViewerNotRun

NextBA ==
    \/ BundleAdjust /\ UNCHANGED exceptReg
    \/ WriteRefined /\ UNCHANGED exceptReg

SpecBA == InitBA /\ [][NextBA]_vars

(***************************************************************************)
(* registration.py: phase_correlation.  The images are the ones whose      *)
(* spectrum has the same magnitude at every frequency, a single bright     *)
(* pixel on black: for them the normalised cross-power spectrum is the     *)
(* cross spectrum itself, and its inverse transform is the circular        *)
(* cross-correlation of the zero-padded images.  Indices count from 0.     *)
(***************************************************************************)
\* The image of h x w pixels whose only bright pixel is at p = (y, x).
Delta(h, w, p) ==
    [h |-> h, w |-> w,
     px |-> [y \in 0..(h - 1) |-> [x \in 0..(w - 1) |-> IF <<y, x>> = p THEN 1 ELSE 0]]]

Images == {Delta(TileSide, TileSide, p) : p \in (0..(TileSide - 1)) \X (0..(TileSide - 1))}

\* fft2(a, s=(H, W)) pads the image with zeros to H x W.
Padded(img, y, x) == IF y < img.h /\ x < img.w THEN img.px[y][x] ELSE 0

\* sum of f over the set S of arguments
RECURSIVE SumOver(_, _)
SumOver(f, S) ==
    IF S = {} THEN 0
    ELSE LET e == CHOOSE e \in S : TRUE IN f[e] + SumOver(f, S \ {e})

\* abs(ifft2(FA * conj(FB))) at (ky, kx): the sum over n of
\* a[n + k] * b[n], indices taken modulo (H, W).
CrossCorrelation(a, b, H, W) ==
    [ky \in 0..(H - 1) |-> [kx \in 0..(W - 1) |->
        Abs(SumOver([n \in (0..(H - 1)) \X (0..(W - 1)) |->
                        Padded(a, (n[1] + ky) % H, (n[2] + kx) % W) * Padded(b, n[1], n[2])],
                    (0..(H - 1)) \X (0..(W - 1))))]]

\* np.unravel_index(argmax(corr)): the first maximum in row-major order.
ArgMax(c, H, W) ==
    CHOOSE q \in (0..(H - 1)) \X (0..(W - 1)) :
        /\ \A r \in (0..(H - 1)) \X (0..(W - 1)) : c[r[1]][r[2]] <= c[q[1]][q[2]]
        /\ \A r \in (0..(H - 1)) \X (0..(W - 1)) :
              (r[1] < q[1] \/ (r[1] = q[1] /\ r[2] < q[2])) => c[r[1]][r[2]] < c[q[1]][q[2]]

Max2(a, b) == IF a >= b THEN a ELSE b
Min2(a, b) == IF a <= b THEN a ELSE b

\* A fraction num / den with den > 0.
Frac(num, den) == IF den < 0 THEN <<-num, -den>> ELSE <<num, den>>

\* quad_interp(mat, axis, center_idx) on the window mat = c[y0..y1][x0..x1]
\* of nrows x ncols values: 0 at the border of the window, else the vertex
\* of the parabola through c1, c, c2, which are read at column 1 (axis 0) or
\* row 1 (axis 1) of the window.
quad_interp(c, y0, x0, nrows, ncols, axis, center_idx) ==
    IF center_idx = 0 \/ center_idx = (IF axis = 0 THEN nrows ELSE ncols) - 1 THEN <<0, 1>>
    ELSE LET c1 == IF axis = 0 THEN c[y0 + center_idx - 1][x0 + 1] ELSE c[y0 + 1][x0 + center_idx - 1]
             cc == IF axis = 0 THEN c[y0 + center_idx][x0 + 1] ELSE c[y0 + 1][x0 + center_idx]
             c2 == IF axis = 0 THEN c[y0 + center_idx + 1][x0 + 1] ELSE c[y0 + 1][x0 + center_idx + 1]
             denom == 2 * (c1 - 2 * cc + c2)
         IN  IF denom # 0 THEN Frac(c1 - c2, denom) ELSE <<0, 1>>

\* refined_peak - (size_b - 1), for refined_peak = peak + frac.
ShiftOf(pk, frac, size_b) == <<(pk - (size_b - 1)) * frac[2] + frac[1], frac[2]>>

\* phase_correlation(imgA, imgB) is called.
InitCorr ==
    /\ imgA \in Images
    /\ imgB \in Images
    /\ corr = <<>>
    /\ peak = <<0, 0>>
    /\ measured = <<>>
    /\ pcStep = "called"
    /\ CacheStart
    /\ CtlStart
    /\ RegNotRun
    /\ ViewerNotRun

\* The correlation surface of size (HA + HB - 1, WA + WB - 1) and its peak.
Correlate ==
    /\ pcStep = "called"
    /\ LET H == imgA.h + imgB.h - 1
           W == imgA.w + imgB.w - 1
           c == CrossCorrelation(imgA, imgB, H, W)
       IN  /\ corr' = c
           /\ peak' = ArgMax(c, H, W)
    /\ pcStep' = "correlated"
    /\ UNCHANGED <<imgA, imgB, measured>>

\* mat[.., 1] (axis 0) or mat[1, ..] (axis 1) is read for an interior
\* center_idx: an IndexError when the window has one column (one row).
QuadIndexError(nrows, ncols, axis, center_idx) ==
    /\ center_idx # 0
    /\ center_idx # (IF axis = 0 THEN nrows ELSE ncols) - 1
    /\ (IF axis = 0 THEN ncols ELSE nrows) < 2

\* Sub-pixel refinement on the window around the peak, and the shift.
RefineAndReturn ==
    /\ pcStep = "correlated"
    /\ LET H == imgA.h + imgB.h - 1
           W == imgA.w + imgB.w - 1
           y0 == Max2(0, peak[1] - 1)
           y1 == Min2(H - 1, peak[1] + 1)
           x0 == Max2(0, peak[2] - 1)
           x1 == Min2(W - 1, peak[2] + 1)
           dy_frac == quad_interp(corr, y0, x0, y1 - y0 + 1, x1 - x0 + 1, 0, peak[1] - y0)
           dx_frac == quad_interp(corr, y0, x0, y1 - y0 + 1, x1 - x0 + 1, 1, peak[2] - x0)
       IN  IF \/ QuadIndexError(y1 - y0 + 1, x1 - x0 + 1, 0, peak[1] - y0)
              \/ QuadIndexError(y1 - y0 + 1, x1 - x0 + 1, 1, peak[2] - x0)
           THEN /\ pcStep' = "raised"
                /\ UNCHANGED measured
           ELSE /\ measured' = <<ShiftOf(peak[1], dy_frac, imgB.h), ShiftOf(peak[2], dx_frac, imgB.w)>>
                /\ pcStep' = "returned"
    /\ UNCHANGED <<imgA, imgB, corr, peak>>

NextCorr ==
    \/ Correlate /\ UNCHANGED exceptCorr
    \/ RefineAndReturn /\ UNCHANGED exceptCorr

SpecCorr == InitCorr /\ [][NextCorr]_vars

(***************************************************************************)
(* registration.py: phase_correlation on images that are not translates of *)
(* each other.  Their surface has no closed form in integers; it is an     *)
(* input here: a single largest magnitude, the peak, and at most one lower *)
(* magnitude elsewhere.                                                    *)
(***************************************************************************)
\* the largest lower magnitude of a surface; the peak is two above it
MaxMagnitude == 2

\* The shapes (H, W) of the two images, which are tiles of one acquisition.
QuadShapes == {<<3, 3>>, <<2, 2>>, <<3, 1>>, <<1, 3>>}

\* An image of h x w pixels whose pixels are not modelled.
Opaque(h, w) == [h |-> h, w |-> w, px |-> <<>>]

\* The surfaces of H x W magnitudes with the peak at q and the magnitude m
\* at r (r = q: no lower magnitude but 0).
Surfaces(H, W) ==
    {[y \in 0..(H - 1) |-> [x \in 0..(W - 1) |->
        IF <<y, x>> = q THEN MaxMagnitude + 2 ELSE IF <<y, x>> = r THEN m ELSE 0]] :
     <<q, r, m>> \in ((0..(H - 1)) \X (0..(W - 1))) \X ((0..(H - 1)) \X (0..(W - 1)))
                      \X (1..MaxMagnitude)}

\* phase_correlation(imgA, imgB) is called on two tiles of one shape.
InitQuad ==
    /\ \E sh \in QuadShapes : imgA = Opaque(sh[1], sh[2]) /\ imgB = Opaque(sh[1], sh[2])
    /\ corr = <<>>
    /\ peak = <<0, 0>>
    /\ measured = <<>>
    /\ pcStep = "called"
    /\ CacheStart
    /\ CtlStart
    /\ RegNotRun
    /\ ViewerNotRun

\* corr = abs(ifft2(R)) and its peak, for some surface of the linear
\* correlation size.
CorrelateSurface ==
    /\ pcStep = "called"
    /\ LET H == imgA.h + imgB.h - 1
           W == imgA.w + imgB.w - 1
       IN  \E c \in Surfaces(H, W) :
              /\ corr' = c
              /\ peak' = ArgMax(c, H, W)
    /\ pcStep' = "correlated"
    /\ UNCHANGED <<imgA, imgB, measured>>

NextQuad ==
    \/ CorrelateSurface /\ UNCHANGED exceptCorr
    \/ RefineAndReturn /\ UNCHANGED exceptCorr

SpecQuad == InitQuad /\ [][NextQuad]_vars

(***************************************************************************)
(* renderer.py: TileRenderer.composite.  Indices count from 0.             *)
(***************************************************************************)
\* The inputs composite is run on: tile shapes, levels, and tables of up to
\* MaxRows rows with offsets that the level does and does not divide.
RenderShapes == {<<3, 3>>, <<2, 4>>}
RenderLevels == {1, 2, 3}
RenderFovs == {1, 2}
RenderOffsets == {-3, 0, 3}
OffsetRow == [fov : RenderFovs, dx : RenderOffsets, dy : RenderOffsets]
Tables == UNION {[1..n -> OffsetRow] : n \in 0..MaxRows}

\* cache.get(fov, z, 1): every pixel of a tile tells the tile and its place.
TilePixel(fov, y, x) == fov * 100 + y * 10 + x

\* The offsets of the table in the downsampled grid, and the size of a
\* downsampled tile.
GridX(t, level) == {Trunc(t[i].dx, level) : i \in 1..Len(t)}
GridY(t, level) == {Trunc(t[i].dy, level) : i \in 1..Len(t)}

\* composite[dy_ds:dy_ds + h_ds, dx_ds:dx_ds + w_ds] = arr[::level, ::level]
PasteUnder(cv, row, level, shape, min_y, min_x) ==
    LET dy_ds == Trunc(row.dy, level) - min_y
        dx_ds == Trunc(row.dx, level) - min_x
        h_ds == CeilDiv(shape[1], level)
        w_ds == CeilDiv(shape[2], level)
    IN  [y \in DOMAIN cv |-> [x \in DOMAIN cv[y] |->
            IF /\ dy_ds <= y /\ y < dy_ds + h_ds
               /\ dx_ds <= x /\ x < dx_ds + w_ds
               /\ cv[y][x] = 0
            THEN TilePixel(row.fov, (y - dy_ds) * level, (x - dx_ds) * level)
            ELSE cv[y][x]]]
PasteAveraged(cv, row, level, shape, min_y, min_x) ==
    LET dy_ds == Trunc(row.dy, level) - min_y
        dx_ds == Trunc(row.dx, level) - min_x
        h_ds == CeilDiv(shape[1], level)
        w_ds == CeilDiv(shape[2], level)
    IN  [y \in DOMAIN cv |-> [x \in DOMAIN cv[y] |->
            IF /\ dy_ds <= y /\ y < dy_ds + h_ds
               /\ dx_ds <= x /\ x < dx_ds + w_ds
            THEN (TilePixel(row.fov, (y - dy_ds) * level, (x - dx_ds) * level)
                  + TilePixel(row.fov, Min2((y - dy_ds) * level + level - 1, shape[1] - 1),
                              Min2((x - dx_ds) * level + level - 1, shape[2] - 1))) \div 2
            ELSE cv[y][x]]]
Paste(cv, row, level, shape, min_y, min_x) ==
    LET dy_ds == Trunc(row.dy, level) - min_y
        dx_ds == Trunc(row.dx, level) - min_x
        h_ds == CeilDiv(shape[1], level)
        w_ds == CeilDiv(shape[2], level)
    IN  [y \in DOMAIN cv |-> [x \in DOMAIN cv[y] |->
            IF /\ dy_ds <= y /\ y < dy_ds + h_ds
               /\ dx_ds <= x /\ x < dx_ds + w_ds
            THEN TilePixel(row.fov, (y - dy_ds) * level, (x - dx_ds) * level)
            ELSE cv[y][x]]]

Zeros(h, w) == [y \in 0..(h - 1) |-> [x \in 0..(w - 1) |-> 0]]

\* composite(offsets, level) is called.
InitRnd ==
    /\ rndTable \in Tables
    /\ rndLevel \in RenderLevels
    /\ rndShape \in RenderShapes
    /\ canvas = <<>>
    /\ rndNext = 1
    /\ rndStep = "called"
    /\ CacheStart
    /\ CtlStart
    /\ RegNotRun
    /\ CorrNotRun
    /\ PyrNotRun
    /\ DsNotRun

\* if offsets.empty: return np.zeros((1, 1))
RenderEmpty ==
    /\ rndStep = "called"
    /\ rndTable = <<>>
    /\ canvas' = Zeros(1, 1)
    /\ rndStep' = "returned"
    /\ UNCHANGED <<rndTable, rndLevel, rndShape, rndNext>>

\* The canvas of zeros of the output dimensions.
RenderAllocateFloored ==
    /\ rndStep = "called"
    /\ rndTable # <<>>
    /\ LET xs == GridX(rndTable, rndLevel)
           ys == GridY(rndTable, rndLevel)
       IN  canvas' = Zeros((SetMax(ys) - SetMin(ys)) + Max2(1, rndShape[1] \div rndLevel),
                           (SetMax(xs) - SetMin(xs)) + Max2(1, rndShape[2] \div rndLevel))
    /\ rndStep' = "pasting"
    /\ UNCHANGED <<rndTable, rndLevel, rndShape, rndNext>>
RenderAllocate ==
    /\ rndStep = "called"
    /\ rndTable # <<>>
    /\ LET xs == GridX(rndTable, rndLevel)
           ys == GridY(rndTable, rndLevel)
       IN  canvas' = Zeros((SetMax(ys) - SetMin(ys)) + CeilDiv(rndShape[1], rndLevel),
                           (SetMax(xs) - SetMin(xs)) + CeilDiv(rndShape[2], rndLevel))
    /\ rndStep' = "pasting"
    /\ UNCHANGED <<rndTable, rndLevel, rndShape, rndNext>>

\* The slice [dy_ds:dy_ds + h_ds, dx_ds:dx_ds + w_ds] of the canvas has the
\* shape (h_ds, w_ds) of the downsampled tile: it starts at a non-negative
\* index and ends inside the canvas.  Otherwise the assignment raises.
Fits(cv, row, level, shape, min_y, min_x) ==
    LET dy_ds == Trunc(row.dy, level) - min_y
        dx_ds == Trunc(row.dx, level) - min_x
    IN  /\ 0 <= dy_ds /\ dy_ds + CeilDiv(shape[1], level) <= Cardinality(DOMAIN cv)
        /\ 0 <= dx_ds /\ dx_ds + CeilDiv(shape[2], level) <= Cardinality(DOMAIN cv[0])

\* One turn of the loop over the rows of the table.
RenderPaste ==
    /\ rndStep = "pasting"
    /\ rndNext <= Len(rndTable)
    /\ LET min_y == SetMin(GridY(rndTable, rndLevel))
           min_x == SetMin(GridX(rndTable, rndLevel))
       IN  IF Fits(canvas, rndTable[rndNext], rndLevel, rndShape, min_y, min_x)
           THEN /\ canvas' = Paste(canvas, rndTable[rndNext], rndLevel, rndShape, min_y, min_x)
                /\ rndNext' = rndNext + 1
                /\ rndStep' = rndStep
           ELSE /\ rndStep' = "raised"
                /\ UNCHANGED <<canvas, rndNext>>
    /\ UNCHANGED <<rndTable, rndLevel, rndShape>>

\* return composite
RenderReturn ==
    /\ rndStep = "pasting"
    /\ rndNext > Len(rndTable)
    /\ rndStep' = "returned"
    /\ UNCHANGED <<rndTable, rndLevel, rndShape, canvas, rndNext>>

NextRnd ==
    \/ RenderEmpty /\ UNCHANGED exceptRnd
    \/ RenderAllocate /\ UNCHANGED exceptRnd
    \/ RenderPaste /\ UNCHANGED exceptRnd
    \/ RenderReturn /\ UNCHANGED exceptRnd

SpecRnd == InitRnd /\ [][NextRnd]_vars

(***************************************************************************)
(* pyramid.py: PyramidBuilder.build_levels, on the overview that           *)
(* DataSource.load_overview builds.  Array indices count from 0; a mean is *)
(* the fraction <<sum, count>>.                                            *)
(***************************************************************************)
\* The inputs build_levels is run on: overviews of up to MaxGrid tiles whose
\* sides the factors do and do not divide, and lists of up to MaxFactors
\* factors.
TileSides == {2, 3}
Factors == {0, 1, 2, 3}
Grids == [n : 1..MaxGrid, tile_h : TileSides, tile_w : TileSides]
FactorLists == UNION {[1..k -> Factors] : k \in 0..MaxFactors}

\* math.ceil(math.sqrt(num_tiles))
CeilSqrt(n) == CHOOSE c \in 0..n : c * c >= n /\ \A d \in 0..(c - 1) : d * d < n

\* The pixel (y, x) of the first channel of the idx-th tile.
OverviewPixel(idx, y, x) == ((idx + y * y + 3 * x + x * y) % 7) + 1

\* load_overview(1): the tiles laid row by row on a grid of cols columns,
\* as a Dask array chunked by tile.
Mosaic(g) ==
    LET cols == CeilSqrt(g.n)
        rows == CeilDiv(g.n, cols)
    IN  [arr |-> [y \in 0..(rows * g.tile_h - 1) |-> [x \in 0..(cols * g.tile_w - 1) |->
                    LET idx == (y \div g.tile_h) * cols + (x \div g.tile_w)
                    IN  IF idx < g.n
                        THEN OverviewPixel(idx, y % g.tile_h, x % g.tile_w)
                        ELSE 0]],
         chunks |-> <<[r \in 1..rows |-> g.tile_h], [c \in 1..cols |-> g.tile_w]>>]

Positive(c) == c > 0

\* dask.array.coarsen rechunks the axis before it reduces: every chunk is
\* cut to a multiple of the factor and what was cut goes to the end of the
\* axis, whole multiples of the factor staying inside a chunk.
aligned_coarsen_chunks(chunks, multiple) ==
    LET overflow == [i \in DOMAIN chunks |-> chunks[i] % multiple]
        excess == SeqSum(overflow)
        new_chunks == [i \in DOMAIN chunks |->
                          chunks[i] - overflow[i]
                          + (IF i = 1 THEN excess - (excess % multiple) ELSE 0)]
    IN  SelectSeq(new_chunks \o <<excess % multiple>>, Positive)

\* Where the blocks of an axis start: each chunk is reduced on its own,
\* losing the part of it that does not fill a block (trim_excess=True).
RECURSIVE BlockStarts(_, _, _)
BlockStarts(chunks, offset, factor) ==
    IF chunks = <<>> THEN <<>>
    ELSE [k \in 1..(Head(chunks) \div factor) |-> offset + (k - 1) * factor]
         \o BlockStarts(Tail(chunks), offset + Head(chunks), factor)

\* np.mean over the block of factor x factor cells at (r0, c0).
BlockMean(arr, r0, c0, factor) ==
    LET block == (r0..(r0 + factor - 1)) \X (c0..(c0 + factor - 1))
    IN  <<SumOver([p \in block |-> arr[p[1]][p[2]]], block), factor * factor>>

CoarsenBy(base, factor, row_chunks, col_chunks) ==
    LET rs == BlockStarts(row_chunks, 0, factor)
        cs == BlockStarts(col_chunks, 0, factor)
        Coarse(ch) == SelectSeq([i \in DOMAIN ch |-> ch[i] \div factor], Positive)
    IN  [arr |-> [i \in 0..(Len(rs) - 1) |-> [j \in 0..(Len(cs) - 1) |->
                    BlockMean(base.arr, rs[i + 1], cs[j + 1], factor)]],
         chunks |-> <<Coarse(row_chunks), Coarse(col_chunks)>>]

\* da.coarsen(np.mean, base_overview, {0: factor, 1: factor}, trim_excess=True)
CoarsenChunkwise(base, factor) ==
    CoarsenBy(base, factor, base.chunks[1], base.chunks[2])
Coarsen(base, factor) ==
    CoarsenBy(base, factor,
              aligned_coarsen_chunks(base.chunks[1], factor),
              aligned_coarsen_chunks(base.chunks[2], factor))

\* build_levels() is called.
InitPyr ==
    /\ pyrGrid \in Grids
    /\ zoom_levels \in FactorLists
    /\ base_overview = NoOverview
    /\ levels = <<>>
    /\ pyrNext = 1
    /\ pyrStep = "called"
    /\ CacheStart
    /\ CtlStart
    /\ RegNotRun
    /\ CorrNotRun
    /\ RndNotRun
    /\ DsNotRun

\* base_overview = self.datasource.load_overview(level=1)
LoadBase ==
    /\ pyrStep = "called"
    /\ base_overview' = Mosaic(pyrGrid)
    /\ pyrStep' = "looping"
    /\ UNCHANGED <<pyrGrid, zoom_levels, levels, pyrNext>>

\* One turn of the loop over self.zoom_levels.
BuildLevel ==
    /\ pyrStep = "looping"
    /\ pyrNext <= Len(zoom_levels)
    /\ LET factor == zoom_levels[pyrNext]
           entry == IF factor <= 1 THEN base_overview
                    ELSE Coarsen(base_overview, factor)
       IN  levels' = [f \in DOMAIN levels \cup {factor} |->
                         IF f = factor THEN entry ELSE levels[f]]
    /\ pyrNext' = pyrNext + 1
    /\ UNCHANGED <<pyrGrid, zoom_levels, base_overview, pyrStep>>

\* return levels
ReturnLevels ==
    /\ pyrStep = "looping"
    /\ pyrNext > Len(zoom_levels)
    /\ pyrStep' = "returned"
    /\ UNCHANGED <<pyrGrid, zoom_levels, base_overview, levels, pyrNext>>

NextPyr ==
    \/ LoadBase /\ UNCHANGED exceptPyr
    \/ BuildLevel /\ UNCHANGED exceptPyr
    \/ ReturnLevels /\ UNCHANGED exceptPyr

SpecPyr == InitPyr /\ [][NextPyr]_vars

(***************************************************************************)
(* datasource.py: DataSource.load_tile and DataSource.load_overview.       *)
(***************************************************************************)
\* The keys (fov, z) a directory may hold tiles for, and the lists of
\* channels (suffix, file) indexed under a key, in the order rglob met
\* them.  A file is a readable 2D image, or was removed after it was
\* indexed, or cannot be read, or holds an image that is not 2D.
DsKeys == {<<0, 0>>, <<1, 0>>}
ChannelLists ==
    { <<[suffix |-> 1, file |-> "image"]>>,
      <<[suffix |-> 1, file |-> "removed"]>>,
      <<[suffix |-> 1, file |-> "stack"]>>,
      <<[suffix |-> 2, file |-> "image"], [suffix |-> 1, file |-> "image"]>>,
      <<[suffix |-> 2, file |-> "removed"], [suffix |-> 1, file |-> "unreadable"]>> }
\* __init__ leaves an index with at least one key.
Indexes == UNION {[K -> ChannelLists] : K \in (SUBSET DsKeys) \ {{}}}
DsFovs == {0, 1, 2}
DsLevels == {0, 1, 2}

\* raise ValueError(f"Unsupported level ...") and
\* raise FileNotFoundError(f"No tile found ...")
LevelError == [ok |-> "raised", err |-> "ValueError", what |-> "level"]
TileNotFound == [ok |-> "raised", err |-> "FileNotFoundError", what |-> "tile"]

\* if level != 1
UnsupportedBelow(level) == level < 1
Unsupported(level) == level # 1

\* The loop over the sorted channels: the first file that fails ends it,
\* otherwise the images are stacked in that order.
RECURSIVE ReadChannels(_, _)
ReadChannels(channel_list, arrays) ==
    IF channel_list = <<>> THEN [ok |-> "tile", channels |-> arrays]
    ELSE LET file == Head(channel_list).file
         IN  IF file = "removed"
             THEN [ok |-> "raised", err |-> "FileNotFoundError", what |-> "channel"]
             ELSE IF file = "unreadable"
             THEN [ok |-> "raised", err |-> "IOError", what |-> "read"]
             ELSE IF file = "stack"
             THEN [ok |-> "raised", err |-> "ValueError", what |-> "dimensions"]
             ELSE ReadChannels(Tail(channel_list),
                               Append(arrays, Head(channel_list).suffix))

\* load_tile after the test of the level: the lookup, the sort by suffix
\* and the reads.
TileAt(index, fov, z) ==
    IF <<fov, z>> \notin DOMAIN index THEN TileNotFound
    ELSE LET channel_list == index[<<fov, z>>]
             suffix == [c \in {channel_list[i] : i \in DOMAIN channel_list} |-> c.suffix]
         IN  ReadChannels(SortedBy(channel_list, suffix), <<>>)

\* sorted(fov for (fov, _) in fov_z_pairs)
RECURSIVE Sorted(_)
Sorted(S) == IF S = {} THEN <<>> ELSE <<SetMin(S)>> \o Sorted(S \ {SetMin(S)})

\* The first of the loads that raises, or none.
RECURSIVE FirstRaised(_)
FirstRaised(attempts) ==
    IF attempts = <<>> THEN NoResult
    ELSE IF Head(attempts).ok = "raised" THEN Head(attempts)
    ELSE FirstRaised(Tail(attempts))

\* load_overview after the test of the level, for the key the index
\* yields first: the sample tile is loaded, then every tile of its z.
OverviewFrom(index, sample_key) ==
    LET overview_fovs == Sorted({k[1] : k \in {q \in DOMAIN index : q[2] = sample_key[2]}})
        attempts == <<TileAt(index, sample_key[1], sample_key[2])>>
                 \o [i \in 1..Len(overview_fovs) |->
                        TileAt(index, overview_fovs[i], sample_key[2])]
    IN  IF FirstRaised(attempts) # NoResult THEN FirstRaised(attempts)
        ELSE [ok |-> "overview", fovs |-> overview_fovs]

\* load_tile(fov, z, level) or load_overview(level) is called.
InitDs ==
    /\ tiles_index \in Indexes
    /\ dsCall \in [op : {"load_tile", "load_overview"}, fov : DsFovs, z : {0},
                   level : DsLevels]
    /\ dsLooked = FALSE
    /\ dsResult = NoResult
    /\ dsStep = "called"
    /\ CacheStart
    /\ CtlStart
    /\ RegNotRun
    /\ CorrNotRun
    /\ RndNotRun
    /\ PyrNotRun

\* if level != 1: raise ValueError, the first statement of both methods.
RejectLevel ==
    /\ dsStep = "called"
    /\ Unsupported(dsCall.level)
    /\ dsResult' = LevelError
    /\ dsStep' = "done"
    /\ UNCHANGED <<tiles_index, dsCall, dsLooked>>

AcceptLevel ==
    /\ dsStep = "called"
    /\ ~Unsupported(dsCall.level)
    /\ dsStep' = "checked"
    /\ UNCHANGED <<tiles_index, dsCall, dsLooked, dsResult>>

\* The rest of load_tile.
LoadTile ==
    /\ dsStep = "checked"
    /\ dsCall.op = "load_tile"
    /\ dsLooked' = TRUE
    /\ dsResult' = TileAt(tiles_index, dsCall.fov, dsCall.z)
    /\ dsStep' = "done"
    /\ UNCHANGED <<tiles_index, dsCall>>

\* The rest of load_overview; next(iter(self.tiles_index)) is the key that
\* the directory walk met first.
LoadOverview ==
    /\ dsStep = "checked"
    /\ dsCall.op = "load_overview"
    /\ dsLooked' = TRUE
    /\ \E sample_key \in DOMAIN tiles_index :
           dsResult' = OverviewFrom(tiles_index, sample_key)
    /\ dsStep' = "done"
    /\ UNCHANGED <<tiles_index, dsCall>>

NextDs ==
    \/ RejectLevel /\ UNCHANGED exceptDs
    \/ AcceptLevel /\ UNCHANGED exceptDs
    \/ LoadTile /\ UNCHANGED exceptDs
    \/ LoadOverview /\ UNCHANGED exceptDs

SpecDs == InitDs /\ [][NextDs]_vars

InitCtl == CtlStart /\ CacheStart /\ RegNotRun /\ CorrNotRun /\ ViewerNotRun

NextCtl ==
    \/ \E c \in Centers, z \in Zooms : OnViewChangedFetchFails(c, z) /\ UNCHANGED exceptCtl
    \/ \E c \in Centers, z \in Zooms : OnViewChanged(c, z) /\ UNCHANGED exceptCtl
    \/ WorkerTakes /\ UNCHANGED exceptCtl
    \/ \E j \in 1..MaxEvents : AlignEnds(j) /\ UNCHANGED exceptCtl
    \/ \E j \in 1..MaxEvents : OnDoneFailed(j) /\ UNCHANGED exceptCtl
    \/ \E j \in 1..MaxEvents : OnDoneRaises(j) /\ UNCHANGED exceptCtl
    \/ \E j \in 1..MaxEvents : OnDone(j) /\ UNCHANGED exceptCtl
    \/ Swap /\ UNCHANGED exceptCtl

SpecCtl == InitCtl /\ [][NextCtl]_vars

\* The pool's workers and the UI event loop keep running.
FairSpecCtl ==
    /\ SpecCtl
    /\ WF_vars(WorkerTakes /\ UNCHANGED exceptCtl)
    /\ \A j \in 1..MaxEvents :
          /\ WF_vars(AlignEnds(j) /\ UNCHANGED exceptCtl)
          /\ WF_vars((OnDoneFailed(j) \/ OnDoneRaises(j) \/ OnDone(j)) /\ UNCHANGED exceptCtl)
    /\ WF_vars(Swap /\ UNCHANGED exceptCtl)

InitCache == CacheStart /\ CtlStart /\ RegNotRun /\ CorrNotRun /\ ViewerNotRun

NextCache ==
    \/ \E t \in Threads, k \in Keys : CallGet(t, k) /\ UNCHANGED exceptCache
    \/ \E t \in Threads : GetAcquire(t) /\ UNCHANGED exceptCache
    \/ \E t \in Threads : GetHit(t) /\ UNCHANGED exceptCache
    \/ \E t \in Threads : GetMiss(t) /\ UNCHANGED exceptCache
    \/ \E t \in Threads : GetLoad(t) /\ UNCHANGED exceptCache
    \/ \E t \in Threads : GetStore(t) /\ UNCHANGED exceptCache
    \/ \E t \in Threads, k \in Keys, v \in Arrays \cup {NotArray} : PutReject(t, k, v) /\ UNCHANGED exceptCache
    \/ \E t \in Threads, k \in Keys, v \in Arrays : CallPut(t, k, v) /\ UNCHANGED exceptCache
    \/ \E t \in Threads : PutAcquire(t) /\ UNCHANGED exceptCache
    \/ \E t \in Threads : PutStore(t) /\ UNCHANGED exceptCache

SpecCache == InitCache /\ [][NextCache]_vars

\* The same calls on fewer inputs, for the properties of the lock, which do
\* not depend on which of many keys or arrays a call names: two keys, one
\* array to put and one value put refuses.
ContendKeys == {1, 2}
ContendArrays == {2}

NextContend ==
    \/ \E t \in Threads, k \in ContendKeys : CallGet(t, k) /\ UNCHANGED exceptCache
    \/ \E t \in Threads : GetAcquire(t) /\ UNCHANGED exceptCache
    \/ \E t \in Threads : GetHit(t) /\ UNCHANGED exceptCache
    \/ \E t \in Threads : GetMiss(t) /\ UNCHANGED exceptCache
    \/ \E t \in Threads : GetLoad(t) /\ UNCHANGED exceptCache
    \/ \E t \in Threads : GetStore(t) /\ UNCHANGED exceptCache
    \/ \E t \in Threads, k \in ContendKeys : PutReject(t, k, NotArray) /\ UNCHANGED exceptCache
    \/ \E t \in Threads, k \in ContendKeys, v \in ContendArrays : CallPut(t, k, v) /\ UNCHANGED exceptCache
    \/ \E t \in Threads : PutAcquire(t) /\ UNCHANGED exceptCache
    \/ \E t \in Threads : PutStore(t) /\ UNCHANGED exceptCache

SpecContend == InitCache /\ [][NextContend]_vars

\* Every thread that can take a step of its call takes one: a thread inside
\* the with-block runs on to its end, and a thread waiting for the lock
\* gets it once the lock stays free.
FairSpecContend ==
    /\ SpecContend
    /\ \A t \in Threads :
          WF_vars((GetAcquire(t) \/ GetHit(t) \/ GetMiss(t) \/ GetLoad(t) \/ GetStore(t)
                   \/ PutAcquire(t) \/ PutStore(t)) /\ UNCHANGED exceptCache)

(***************************************************************************)
(* Claims about TileCache, checked under SpecCache.                        *)
(***************************************************************************)
\* Position of key k in the record of uses (0 when it is not in it).
Pos(log, k) ==
    IF \E i \in 1..Len(log) : log[i] = k
    THEN CHOOSE i \in 1..Len(log) : log[i] = k
    ELSE 0

\* Thread t completes a call with the step taken.
Completes(t) == pc[t] # "idle" /\ pc'[t] = "idle"

\* Thread t inserts into the cache with the step taken.
Inserts(t) == pc[t] \in {"get_store", "put_store"} /\ pc'[t] = "idle"

\* C1: in every reachable state, whatever get and put calls were made and
\* however they interleaved or failed, the byte sizes of the resident
\* entries sum to at most max_bytes.
C1_ResidentBytesWithinBudget ==
    SumBytes(cache.data, Keys) <= MaxBytes

\* An insertion has just evicted an entry and the cache is full to the byte.
C1_Witness ==
    /\ evicted # {}
    /\ SumBytes(cache.data, Keys) = MaxBytes
    /\ Cardinality(Resident(cache)) >= 2

\* C2: entries leave the cache only by an insertion (put, or get on a
\* miss), and every entry an insertion evicts was used (inserted, or
\* returned by a get hit) less recently than every entry that stays
\* resident beside the key inserted.
C2_EvictsLeastRecentlyUsed ==
    [][ /\ Evicted(cache, cache') # {} => \E t \in Threads : Inserts(t)
        /\ \A t \in Threads :
              Inserts(t) =>
                 \A e \in Evicted(cache, cache') :
                    \A s \in Resident(cache') \ {arg[t].key} :
                       Pos(useLog, e) < Pos(useLog, s)
      ]_vars

\* An insertion has just evicted an entry while an older resident one, of
\* another key than the inserted one, stayed.
C2_Witness ==
    /\ evicted # {}
    /\ ret.how = Returned
    /\ Resident(cache) \ {ret.key} # {}

\* C3: as long as a key was never evicted or written by put and no load of
\* it failed or was refused, load_tile was called at most once for it, and
\* every get of it, also one that raced with another get of the same
\* missing key, returns the tile that one load returned.
C3_OneLoadPerKey ==
    /\ \A k \in Keys \ disturbed : loads[k] <= 1
    /\ (ret.op = "get" /\ ret.key \notin disturbed) =>
          /\ ret.how = Returned
          /\ loads[ret.key] = 1
          /\ ret.val = loaded[ret.key]

\* A get that was called while another thread was inside get for the same
\* missing key has returned the tile of the single load.
C3_Witness ==
    /\ ret.op = "get"
    /\ ret.raced
    /\ ret.key \notin disturbed
    /\ ret.how = Returned
    /\ loads[ret.key] = 1
    /\ ret.val = loaded[ret.key]

\* C4: a get on a resident key returns the stored array, calls load_tile
\* for no key, leaves the resident entries and the byte total as they
\* were, and makes the key the most recently used, the order of the other
\* keys being kept.
C4_GetHitFrame ==
    [][ \A t \in Threads :
           (pc[t] = "get_check" /\ Contains(cache, arg[t].key) /\ pc'[t] # pc[t]) =>
              /\ ret'.op = "get" /\ ret'.key = arg[t].key
              /\ ret'.how = Returned
              /\ ret'.val = cache.data[arg[t].key]
              /\ loads' = loads
              /\ cache'.data = cache.data
              /\ cache'.currsize = cache.currsize
              /\ evicted' = {}
              /\ Len(cache'.order) = Len(cache.order)
              /\ cache'.order[Len(cache'.order)] = arg[t].key
              /\ SeqRemove(cache'.order, arg[t].key) = SeqRemove(cache.order, arg[t].key)
      ]_vars

\* A get has just hit a key that is resident beside a more recently
\* inserted one, and load_tile was never called for it (it was put).
C4_Witness ==
    /\ ret.op = "get"
    /\ ret.how = Returned
    /\ loads[ret.key] = 0
    /\ Cardinality(Resident(cache)) >= 2
    /\ cache.order[Len(cache.order)] = ret.key

\* C5: a put of a value that is no array raises TypeError, a put of an
\* array of more than max_bytes bytes raises ValueError, and either leaves
\* the resident entries, their recency order and the byte total untouched.
C5_PutRejects ==
    [][ (ret'.op = "put" /\ (~isinstance_ndarray(ret'.given)
                             \/ nbytes(ret'.given) > MaxBytes)) =>
           /\ ret'.how = IF ~isinstance_ndarray(ret'.given) THEN TypeErr ELSE ValueErr
           /\ cache' = cache
           /\ useLog' = useLog
           /\ evicted' = {}
           /\ loads' = loads
      ]_vars

\* An oversized array has just been refused by a cache that holds entries.
C5_Witness ==
    /\ ret.op = "put"
    /\ ret.how = ValueErr
    /\ nbytes(ret.given) > MaxBytes
    /\ Resident(cache) # {}

\* The entry evicted last by an insertion: among the keys gone, the one
\* used most recently.
LastEvicted(c, gone) ==
    CHOOSE e \in gone : \A g \in gone : Pos(c.order, g) <= Pos(c.order, e)

\* C21: an insertion (put, or get on a miss) that evicts stops as soon as
\* the new entry fits: the entry evicted last could not have stayed, the
\* entries resident after the insertion, the new one among them, and that
\* entry together exceed max_bytes.  Also when the key inserted was
\* resident with a smaller buffer.
C21_EvictsOnlyUntilFits ==
    [][ \A t \in Threads :
           (Inserts(t) /\ Evicted(cache, cache') # {}) =>
               SumBytes(cache'.data, Keys)
               + nbytes(cache.data[LastEvicted(cache, Evicted(cache, cache'))])
               > MaxBytes
      ]_vars

\* C22: a get that misses and whose load_tile raises, or returns something
\* that is no array, or returns an array larger than max_bytes, ends with
\* that error at its caller, stores nothing and evicts nothing (entries,
\* recency order and byte total stay as they were), leaves the key not
\* resident and the lock free; and a get that finds its key not resident
\* goes on to call load_tile, every call of which is counted, so that the
\* next get of the key loads again.
C22_FailedLoadNotCached ==
    [][ \A t \in Threads :
           LET k == arg[t].key
           IN  /\ (pc[t] = "get_store" /\ pc'[t] # pc[t]) =>
                      /\ ~isinstance_ndarray(arg[t].tile) => ret'.how = TypeErr
                      /\ (isinstance_ndarray(arg[t].tile) /\ nbytes(arg[t].tile) > MaxBytes)
                            => ret'.how = ValueErr
               /\ (arg[t].op = "get" /\ Completes(t) /\ ret'.how # Returned) =>
                      /\ ret'.op = "get" /\ ret'.key = k
                      /\ ret'.how \in {IOErr, TypeErr, ValueErr}
                      /\ cache' = cache
                      /\ evicted' = {}
                      /\ ~Contains(cache', k)
                      /\ lock' = NoThread
               /\ (pc[t] = "get_check" /\ ~Contains(cache, k) /\ pc'[t] # pc[t]) =>
                      pc'[t] = "get_load"
               /\ (pc[t] = "get_load" /\ pc'[t] # pc[t]) =>
                      loads'[k] = loads[k] + 1
      ]_vars

\* A get has just failed for a key that was loaded twice, while another
\* entry is resident.
C22_Witness ==
    /\ ret.op = "get"
    /\ ret.how \in {IOErr, TypeErr, ValueErr}
    /\ loads[ret.key] = 2
    /\ Resident(cache) # {}
    /\ lock = NoThread

\* Thread t is inside load_tile, called by its get, before and after the
\* step taken.
Loading(t) == pc[t] = "get_load" /\ pc'[t] = "get_load"

\* The lock is held by a thread inside a with-block, and by no other.
HeldInsideWith ==
    \A t \in Threads :
        lock = t <=> pc[t] \in {"get_check", "get_load", "get_store", "put_store"}

\* C23 as stated: while a thread's get is loading, no call of another
\* thread completes.
C23_NothingCompletesWhileLoading ==
    [][ (\E t \in Threads : Loading(t)) => ret' = NoRet ]_vars

\* C23: while a thread's get is loading a missing tile, no get of another
\* thread and no put that reaches the cache completes, on any key: the one
\* call that can end is a put refused for its tile's type or size, which
\* ends before it asks for the lock and leaves the cache as it is.  The
\* lock is held only inside a with-block, so it is free again after every
\* exit, also a raising one, and every call waiting for it gets it.
C23_LoadBlocksOthersNoDeadlock ==
    /\ [][ (\E t \in Threads : Loading(t)) =>
              \/ ret' = NoRet
              \/ /\ ret'.op = "put"
                 /\ ret'.how \in {TypeErr, ValueErr}
                 /\ cache' = cache
         ]_vars
    /\ []HeldInsideWith
    /\ \A t \in Threads :
          /\ (pc[t] = "get_lock") ~> (pc[t] = "get_check")
          /\ (pc[t] = "put_lock") ~> (pc[t] = "put_store")
          /\ (pc[t] # "idle") ~> (pc[t] = "idle")

\* A thread waits for the lock, with a get of a resident key, while
\* another thread's get is loading.
C23_Witness ==
    \E t \in Threads, u \in Threads :
        /\ pc[t] = "get_load"
        /\ pc[u] = "get_lock"
        /\ Contains(cache, arg[u].key)

(***************************************************************************)
(* ViewerController claims, checked under SpecCtl and FairSpecCtl.         *)
(***************************************************************************)
JobIds == 1..Len(jobs)

Count(s, x) == Cardinality({i \in 1..Len(s) : s[i] = x})

Scheduled == {uiQueue[i].job : i \in 1..Len(uiQueue)}

Quiet == InFlight = {} /\ uiQueue = <<>>

\* Job j ends in this step: its on_done callback runs.
Ends(j) == j \in JobIds /\ jobs[j].st = "finished" /\ jobs'[j].st = "done"

\* C6: once every job has finished and every scheduled swap has run, the
\* image displayed is the composite of the job whose swap was scheduled
\* last, whatever the order in which the jobs were requested: a job
\* requested earlier that completes later overwrites a later request.
C6_LastCompletionWins ==
    (Quiet /\ doneOrder # <<>>) =>
        displayed = CompositeOf(doneOrder[Len(doneOrder)])

\* Two overlapping jobs completed in the reverse of their request order, and
\* the earlier request is what is displayed in the end.
C6_Witness ==
    /\ Quiet
    /\ Len(doneOrder) >= 2
    /\ displayed.job = doneOrder[Len(doneOrder)]
    /\ \E i \in 1..(Len(doneOrder) - 1) : doneOrder[i] > displayed.job

\* The steps a job may take: it is never removed, never changes what it
\* was submitted with, and only moves queued -> running -> finished -> done.
JobsOnlyProgress ==
    /\ Len(jobs') >= Len(jobs)
    /\ \A j \in JobIds :
          /\ jobs'[j].event = jobs[j].event
          /\ jobs'[j].fovs = jobs[j].fovs
          /\ jobs'[j].zoom = jobs[j].zoom
          /\ jobs'[j].center = jobs[j].center
          /\ \/ jobs'[j].st = jobs[j].st
             \/ jobs[j].st = "queued" /\ jobs'[j].st = "running"
             \/ jobs[j].st = "running" /\ jobs'[j].st = "finished"
             \/ jobs[j].st = "finished" /\ jobs'[j].st = "done"

\* Every event whose handler ran to the end submitted exactly one job (an
\* event whose tile fetch raised submitted none), and every job not yet
\* taken by a worker is still in the executor's queue.
OneJobPerEvent ==
    /\ \A e \in 1..nevents :
          Cardinality({j \in JobIds : jobs[j].event = e}) = IF e \in aborted THEN 0 ELSE 1
    /\ \A j \in JobIds : jobs[j].event \in 1..nevents
    /\ \A j \in JobIds : jobs[j].st = "queued" <=> Count(poolQueue, j) = 1

FailedJobStep ==
    \A j \in JobIds :
        (Ends(j) /\ jobs[j].result.how = "raised") =>
            /\ j \in errLog' /\ j \notin errLog
            /\ uiQueue' = uiQueue
            /\ doneOrder' = doneOrder
            /\ displayed' = displayed

\* A failed job is reported, never scheduled and never displayed; what is
\* displayed is the overview or the composite of a job that succeeded.
FailedJobNeverShown ==
    /\ \A j \in JobIds :
          (jobs[j].st = "done" /\ jobs[j].result.how = "raised") =>
              /\ j \in errLog
              /\ j \notin Scheduled
              /\ Count(doneOrder, j) = 0
              /\ displayed.job # j
    /\ \/ displayed = Overview
       \/ /\ displayed.job \in JobIds
          /\ jobs[displayed.job].result.how = "returned"
          /\ displayed = CompositeOf(displayed.job)

\* C8: when align_tiles raises, on_done reports the exception; it builds no
\* composite and schedules no swap for that job, so the image displayed
\* stays the last one composited until a later job succeeds.
C8_FailedJobReportedNoSwap ==
    /\ []FailedJobNeverShown
    /\ [][FailedJobStep]_vars

\* A job failed after an earlier job's composite was swapped in, and that
\* composite is still displayed.
C8_Witness ==
    \E j \in errLog :
        /\ jobs[j].st = "done"
        /\ displayed.job # 0
        /\ displayed.job < j
        /\ Quiet

\* A step that changes image_layer.data is the UI thread running the oldest
\* scheduled swap; no job changes state in it.
OnlySwapWrites ==
    displayed' # displayed =>
        /\ uiQueue # <<>>
        /\ displayed' = Head(uiQueue)
        /\ uiQueue' = Tail(uiQueue)
        /\ jobs' = jobs

\* The callback of a job only schedules: at most the one composite of the
\* job that just ended is appended to the scheduled swaps.
CallbackOnlySchedules ==
    \A j \in JobIds :
        Ends(j) =>
            /\ displayed' = displayed
            /\ \/ uiQueue' = uiQueue
               \/ uiQueue' = Append(uiQueue, CompositeOf(j))

\* A job whose align_tiles and whose callback both succeeded has had
\* exactly one swap scheduled; every other job none.
OneSwapPerSuccess ==
    \A j \in JobIds :
        /\ Count(doneOrder, j) =
              IF jobs[j].st = "done" /\ j \notin errLog \cup cbErr THEN 1 ELSE 0
        /\ Cardinality({i \in 1..Len(uiQueue) : uiQueue[i].job = j}) <= Count(doneOrder, j)

LevelAsStated(z, level) ==
    /\ level \in {4, 8, 16}
    /\ level = 4 <=> z[1] < 6 * z[2]
    /\ level = 8 <=> (6 * z[2] <= z[1] /\ z[1] < 12 * z[2])
    /\ level = 16 <=> z[1] >= 12 * z[2]

\* Zoom values around the two thresholds, 10 among them.
ZoomsAround == {<<n, 2>> : n \in 1..30}

\* C15: the composite of a job created at zoom z has downsample level 4
\* when z < 6, 8 when 6 <= z < 12, 16 when z >= 12; zoom 10 gives 8.
C15_LevelFromZoom ==
    /\ \A i \in 1..Len(uiQueue) : LevelAsStated(jobs[uiQueue[i].job].zoom, uiQueue[i].level)
    /\ displayed.job # 0 => LevelAsStated(jobs[displayed.job].zoom, displayed.level)
    /\ \A z \in ZoomsAround \cup Zooms : LevelAsStated(z, Level(z))
    /\ Level(<<10, 1>>) = 8

\* Composites of jobs created at zoom exactly 6 and exactly 12 are shown and
\* scheduled, at levels 8 and 16.
C15_Witness ==
    /\ displayed.job # 0
    /\ jobs[displayed.job].zoom = <<6, 1>>
    /\ displayed.level = 8
    /\ \E i \in 1..Len(uiQueue) :
          jobs[uiQueue[i].job].zoom = <<12, 1>> /\ uiQueue[i].level = 16

\* lo - d / (2 z) <= c <= lo + d / (2 z) for the zoom z = z[1] / z[2] > 0,
\* both sides multiplied by 2 z[1].
WithinHalf(c, mid, d, z) ==
    /\ 2 * z[1] * mid - d * z[2] <= 2 * z[1] * c
    /\ 2 * z[1] * c <= 2 * z[1] * mid + d * z[2]

\* The tiles whose center lies in the box of the event over a layer of
\* shape (h, w).
TilesInBox(center, z, shape) ==
    {f \in Fovs : /\ WithinHalf(TileCenters[f][1], center[1], shape[1], z)
                  /\ WithinHalf(TileCenters[f][2], center[2], shape[2], z)}

\* C16: the tiles selected on a view-change event with center (cy, cx) and
\* zoom z over a displayed layer of h x w pixels are exactly the tiles whose
\* center lies in the box cy -+ h/(2z), cx -+ w/(2z), bounds included; no
\* other tile is fetched or submitted.
C16_SelectsTilesInBox ==
    [][Len(jobs') > Len(jobs) =>
          LET job == jobs'[Len(jobs')]
          IN  /\ {job.fovs[i] : i \in 1..Len(job.fovs)}
                    = TilesInBox(job.center, job.zoom, displayed.shape)
              /\ Len(job.fovs) = Cardinality(TilesInBox(job.center, job.zoom, displayed.shape))]_vars

\* An event over the 8 x 8 overview selected two tiles whose centers lie
\* exactly on the edge of its box, and not the third; a later event over a
\* swapped-in composite of another shape selected all three.
C16_Witness ==
    /\ \E j \in JobIds :
          /\ jobs[j].center = <<32, 64>>
          /\ jobs[j].zoom = <<1, 8>>
          /\ jobs[j].fovs = <<1, 2>>
    /\ \E j \in JobIds : Len(jobs[j].fovs) = 3

\* C24: the tile list a view-change event submits is the list selected for
\* that event, in the order of the selection, and stays what it is however
\* many events are handled later; the offsets table that on_done hands to
\* composite for a job has, for the returned row with tile_index i, the
\* i-th fov (from 0) of that job's own list, with the row's dx and dy.
C24_JobKeepsItsSelection ==
    [][ /\ \A j \in JobIds : jobs'[j].fovs = jobs[j].fovs
        /\ (Len(jobs') = Len(jobs) + 1) =>
               LET job == jobs'[Len(jobs')]
               IN  job.fovs = VisibleFrom(1, job.center, job.zoom, displayed.shape)
        /\ \A j \in JobIds :
              (jobs[j].st = "finished" /\ jobs'[j].st = "done" /\ uiQueue' # uiQueue) =>
                  LET comp == uiQueue'[Len(uiQueue')]
                      rows == jobs[j].result.rows
                  IN  /\ comp.job = j
                      /\ Len(comp.table) = Len(rows)
                      /\ \A i \in 1..Len(rows) :
                            /\ comp.table[i].fov = jobs[j].fovs[rows[i].tile_index + 1]
                            /\ comp.table[i].dx = rows[i].dx
                            /\ comp.table[i].dy = rows[i].dy
      ]_vars

\* The composite of a job of several tiles is scheduled after a later event
\* submitted a job with another selection.
C24_Witness ==
    \E i \in 1..Len(uiQueue) :
        LET j == uiQueue[i].job
        IN  /\ Len(jobs[j].fovs) >= 2
            /\ Len(uiQueue[i].table) >= 2
            /\ Len(jobs) > j
            /\ jobs[Len(jobs)].fovs # jobs[j].fovs
            /\ jobs[Len(jobs)].st # "done"

Consistent ==
    \A e \in 1..Len(shifts) :
        /\ shifts[e].dx * PixelSize = x_coords[shifts[e].fb] - x_coords[shifts[e].fa]
        /\ shifts[e].dy * PixelSize = y_coords[shifts[e].fb] - y_coords[shifts[e].fa]

\* C10: when every measured shift, converted to length units, equals the
\* nominal coordinate difference of its pair, the correction of every tile
\* is zero on both axes and every written position is the nominal one.
C10_ConsistentShiftsZeroCorrection ==
    (regPc = "written" /\ Consistent) =>
        \A i \in 1..Len(fovs) :
            /\ dx_corr.num[idx_map(fovs[i])] = 0
            /\ dy_corr.num[idx_map(fovs[i])] = 0
            /\ refined[i].x[1] = x_coords[fovs[i]] * refined[i].x[2]
            /\ refined[i].y[1] = y_coords[fovs[i]] * refined[i].y[2]

\* A table with a closed loop of three pairs, not all shifts zero, all of
\* them consistent, has been adjusted and written.
C10_Witness ==
    /\ regPc = "written"
    /\ Consistent
    /\ Len(shifts) = 3
    /\ \E e \in 1..Len(shifts) : shifts[e].dx # 0
    /\ \E e \in 1..Len(shifts) : shifts[e].dy # 0

\* The constants (cx, cy) the coordinate table is moved by.
Translations == {<<-2, 0>>, <<3, 5>>}
Moved(coords, c) == [f \in DOMAIN coords |-> coords[f] + c]

\* What the alignment block writes for the coordinates x, y and the shifts
\* sh, given the corrections it solved for.
Written(x, y, dxc, dyc) ==
    [i \in 1..Len(fovs) |->
        [fov |-> fovs[i],
         x |-> <<x[fovs[i]] * dxc.den + dxc.num[idx_map(fovs[i])], dxc.den>>,
         y |-> <<y[fovs[i]] * dyc.den + dyc.num[idx_map(fovs[i])], dyc.den>>]]

\* C19: run on the same table with (cx, cy) added to the nominal coordinates
\* of every tile, with the same measured shifts and the same anchor, the
\* alignment solves for the same correction of every tile, and so writes
\* every position moved by exactly (cx, cy).
C19_TranslationInvariant ==
    (regPc = "written") =>
        \A c \in Translations :
            LET A == DesignMatrix(shifts)
                x_moved == Moved(x_coords, c[1])
                y_moved == Moved(y_coords, c[2])
                dxc == lstsq(A, b_x_of(shifts, x_moved))
                dyc == lstsq(A, b_y_of(shifts, y_moved))
                moved == Written(x_moved, y_moved, dxc, dyc)
            IN  /\ dxc = dx_corr
                /\ dyc = dy_corr
                /\ refined = Written(x_coords, y_coords, dx_corr, dy_corr)
                /\ \A i \in 1..Len(fovs) :
                       /\ moved[i].x = <<refined[i].x[1] + c[1] * refined[i].x[2], refined[i].x[2]>>
                       /\ moved[i].y = <<refined[i].y[1] + c[2] * refined[i].y[2], refined[i].y[2]>>

\* A table whose measured shifts disagree with the nominal spacing, so that
\* some tile is corrected on each axis, has been adjusted and written.
C19_Witness ==
    /\ regPc = "written"
    /\ \E i \in 1..NumTiles : dx_corr.num[i] # 0
    /\ \E i \in 1..NumTiles : dy_corr.num[i] # 0
    /\ \E f \in 1..NumTiles : x_coords[f] # x_coords[fovs[1]]

\* The tiles no chain of measured pairs joins to the anchor (the first
\* tile of the table).
Unreached ==
    {f \in 1..NumTiles :
        idx_map(f) \notin Closure(DesignMatrix(shifts), {idx_map(fovs[1])})}

tile_h == TileHeightPx * PixelSize
Rows == group_rows_by_y(fovs, y_coords, x_coords, tile_h)

\* The places (row, column) at which tile f occurs in rows.
PlacesOf(rows, f) ==
    {rc \in (1..Len(rows)) \X (1..NumTiles) :
        rc[2] <= Len(rows[rc[1]]) /\ rows[rc[1]][rc[2]] = f}

\* Walking the tiles in ascending y from y = lo to y = hi, some tile lies
\* more than half a tile height above the tile just before it.
GapBetween(lo, hi) ==
    \E u, v \in 1..NumTiles :
        /\ lo <= y_coords[u] /\ y_coords[u] < y_coords[v] /\ y_coords[v] <= hi
        /\ ~\E t \in 1..NumTiles : y_coords[u] < y_coords[t] /\ y_coords[t] < y_coords[v]
        /\ 2 * (y_coords[v] - y_coords[u]) > tile_h

\* C13: group_rows_by_y puts every tile in exactly one row; walking the
\* tiles in ascending y, a new row starts exactly where a tile lies more
\* than half a tile height above the one before it; the rows come in
\* ascending y, and each row is in ascending x.
C13_RowsPartitionByGap ==
    regPc = "measured" =>
        LET rows == Rows
            rowOf == [f \in 1..NumTiles |-> (CHOOSE rc \in PlacesOf(rows, f) : TRUE)[1]]
        IN  /\ \A f \in 1..NumTiles : Cardinality(PlacesOf(rows, f)) = 1
            /\ \A r \in 1..Len(rows) : rows[r] # <<>>
            /\ \A f, g \in 1..NumTiles :
                  y_coords[f] <= y_coords[g] =>
                      /\ rowOf[f] <= rowOf[g]
                      /\ rowOf[f] = rowOf[g] <=> ~GapBetween(y_coords[f], y_coords[g])
            /\ \A r \in 1..Len(rows) : \A c \in 1..(Len(rows[r]) - 1) :
                  x_coords[rows[r][c]] <= x_coords[rows[r][c + 1]]

\* A row of three tiles chained by gaps of exactly half a tile height, its
\* ends further apart than that, and put in ascending x against the order
\* of the table.
C13_Witness ==
    /\ regPc = "measured"
    /\ Len(Rows) = 1
    /\ \E f, g \in 1..NumTiles : 2 * (y_coords[g] - y_coords[f]) > tile_h
    /\ x_coords[1] > x_coords[3]

\* The pair measured e-th is an east pair: two tiles next to each other in
\* one row, left one first.
IsEast(rows, e) ==
    \E r \in 1..Len(rows) : \E c \in 1..(Len(rows[r]) - 1) :
        shifts[e].fa = rows[r][c] /\ shifts[e].fb = rows[r][c + 1]

\* The pair measured e-th is a south pair: from a tile to a tile of the
\* next row than which no tile of that row is nearer in x.
IsSouth(rows, e) ==
    \E r \in 1..(Len(rows) - 1) :
        /\ \E c \in 1..Len(rows[r]) : shifts[e].fa = rows[r][c]
        /\ \E c \in 1..Len(rows[r + 1]) : shifts[e].fb = rows[r + 1][c]
        /\ \A c \in 1..Len(rows[r + 1]) :
              Abs(x_coords[shifts[e].fb] - x_coords[shifts[e].fa])
                 <= Abs(x_coords[rows[r + 1][c]] - x_coords[shifts[e].fa])

\* C14: the neighbor pair list holds exactly one east pair for every two
\* tiles next to each other in a row, and one south pair for every tile of
\* every row but the last, to a tile of the next row nearest in x; it holds
\* no other pair.
C14_NeighborPairsExact ==
    regPc = "measured" =>
        LET rows == Rows
        IN  /\ \A e \in 1..Len(shifts) : IsEast(rows, e) \/ IsSouth(rows, e)
            /\ \A r \in 1..Len(rows) : \A c \in 1..(Len(rows[r]) - 1) :
                  Cardinality({e \in 1..Len(shifts) :
                      shifts[e].fa = rows[r][c] /\ shifts[e].fb = rows[r][c + 1]}) = 1
            /\ \A r \in 1..(Len(rows) - 1) : \A c \in 1..Len(rows[r]) :
                  Cardinality({e \in 1..Len(shifts) :
                      shifts[e].fa = rows[r][c] /\ IsSouth(rows, e)}) = 1
            /\ \A c \in 1..Len(rows[Len(rows)]) :
                  ~\E e \in 1..Len(shifts) :
                      shifts[e].fa = rows[Len(rows)][c] /\ IsSouth(rows, e)

\* A tile above a row of two whose nearest tile is the second of that row:
\* one east pair and one south pair were measured.
C14_Witness ==
    /\ regPc = "measured"
    /\ Len(Rows) = 2
    /\ Len(Rows[2]) = 2
    /\ Len(shifts) = 2
    /\ \E e \in 1..Len(shifts) : shifts[e].fa = Rows[1][1] /\ shifts[e].fb = Rows[2][2]

\* C25: the pairs main() builds from the rows of group_rows_by_y join every
\* tile to the anchor, the first tile of the table, by a chain of pairs; so
\* every tile is in some measured pair, and the position written for the
\* anchor is its nominal one.
C25_PairsReachAnchor ==
    (regPc \in {"measured", "solved", "written"}) =>
        /\ Unreached = {}
        /\ \A f \in 1..NumTiles :
              \E e \in 1..Len(shifts) : shifts[e].fa = f \/ shifts[e].fb = f
        /\ (regPc = "written") =>
              /\ refined[1].fov = fovs[1]
              /\ refined[1].x[1] = x_coords[fovs[1]] * refined[1].x[2]
              /\ refined[1].y[1] = y_coords[fovs[1]] * refined[1].y[2]

\* A table of tiles in more than one row, the anchor not in the first of
\* them, with shifts that move some tile, has been adjusted and written.
C25_Witness ==
    /\ regPc = "written"
    /\ \E f \in 1..NumTiles : y_coords[f] < y_coords[fovs[1]] - TileHeightPx * PixelSize
    /\ \E i \in 1..NumTiles : dx_corr.num[i] # 0
    /\ \E i \in 1..NumTiles : dy_corr.num[i] # 0

(***************************************************************************)
(* phase_correlation claims, checked under SpecCorr.                       *)
(***************************************************************************)
\* The position of the bright pixel of an image.
BrightAt(img) ==
    CHOOSE q \in (0..(img.h - 1)) \X (0..(img.w - 1)) : img.px[q[1]][q[2]] = 1

\* The offset by which B lies below / right of A: what A shows at q, B
\* shows at q - offset.
OffsetOfB == <<BrightAt(imgA)[1] - BrightAt(imgB)[1], BrightAt(imgA)[2] - BrightAt(imgB)[2]>>

\* The fraction f is the integer n to within half a pixel.
Near(f, n) == 2 * Abs(f[1] - n * f[2]) < f[2]

\* C12: when B is A shifted by an integer offset (positive: B lies below /
\* right of A), phase_correlation returns that offset up to tolerance; for
\* identical images it returns (0, 0).
C12_ShiftRecovered ==
    pcStep = "returned" =>
        /\ Near(measured[1], OffsetOfB[1])
        /\ Near(measured[2], OffsetOfB[2])

\* The vertex offset of the parabola through c1, c, c2: (c1 - c2) over
\* 2 * (c1 - 2 * c + c2), and 0 when that is 0.
Vertex(c1, c, c2) ==
    IF 2 * (c1 - 2 * c + c2) # 0 THEN Frac(c1 - c2, 2 * (c1 - 2 * c + c2)) ELSE <<0, 1>>

\* The fractions a and b are the same number.
SameNumber(a, b) == a[1] * b[2] = b[1] * a[2]

\* The peak is neither first nor last on the axis (0: rows, 1: columns).
InteriorOn(axis) ==
    /\ 0 < peak[axis + 1]
    /\ peak[axis + 1] < (IF axis = 0 THEN imgA.h + imgB.h ELSE imgA.w + imgB.w) - 2

\* C27: when the peak is interior on an axis, the shift returned for that
\* axis is refined by the parabola through the three magnitudes at peak - 1,
\* peak, peak + 1 along the axis, at the peak's own index on the other axis,
\* wherever the peak lies on the other axis.
C27_RefinedAtOwnIndex ==
    pcStep \in {"returned", "raised"} =>
        /\ InteriorOn(0) =>
              /\ pcStep = "returned"
              /\ SameNumber(measured[1],
                            ShiftOf(peak[1], Vertex(corr[peak[1] - 1][peak[2]], corr[peak[1]][peak[2]],
                                                    corr[peak[1] + 1][peak[2]]), imgB.h))
        /\ InteriorOn(1) =>
              /\ pcStep = "returned"
              /\ SameNumber(measured[2],
                            ShiftOf(peak[2], Vertex(corr[peak[1]][peak[2] - 1], corr[peak[1]][peak[2]],
                                                    corr[peak[1]][peak[2] + 1]), imgB.w))

\* C28: when the peak is first or last on an axis, phase_correlation raises
\* no error and the shift returned for that axis is the peak index less
\* (size of B on the axis - 1), the refinement being 0.
C28_BorderPeakUnrefined ==
    pcStep \in {"returned", "raised"} =>
        /\ ~InteriorOn(0) =>
              /\ pcStep = "returned"
              /\ measured[1] = <<peak[1] - (imgB.h - 1), 1>>
        /\ ~InteriorOn(1) =>
              /\ pcStep = "returned"
              /\ measured[2] = <<peak[2] - (imgB.w - 1), 1>>


(***************************************************************************)
(* Claims on the renderer.                                                 *)
(***************************************************************************)
\* Row i of table t is pasted over the cell (y, x) of the canvas.
PastedOver(t, level, shape, i, y, x) ==
    LET top == Trunc(t[i].dy, level) - SetMin(GridY(t, level))
        left == Trunc(t[i].dx, level) - SetMin(GridX(t, level))
    IN  /\ top <= y /\ y < top + CeilDiv(shape[1], level)
        /\ left <= x /\ x < left + CeilDiv(shape[2], level)

\* C17: for a non-empty table and tiles of H x W pixels, the canvas composite
\* returns is (max_y - min_y) + ceil(H/level) high and (max_x - min_x) +
\* ceil(W/level) wide, for x = trunc(dx/level) and y = trunc(dy/level) over
\* the rows, and every tile lies in it with its top-left corner at
\* (y - min_y, x - min_x), its cell (r, c) being the tile's pixel
\* (r * level, c * level), wherever no later row of the table is pasted over.
C17_CompositeCanvas ==
    (rndStep = "returned" /\ rndTable # <<>>) =>
        LET ys == GridY(rndTable, rndLevel)
            xs == GridX(rndTable, rndLevel)
            h == CeilDiv(rndShape[1], rndLevel)
            w == CeilDiv(rndShape[2], rndLevel)
            out_h == (SetMax(ys) - SetMin(ys)) + h
            out_w == (SetMax(xs) - SetMin(xs)) + w
        IN  /\ DOMAIN canvas = 0..(out_h - 1)
            /\ \A y \in DOMAIN canvas : DOMAIN canvas[y] = 0..(out_w - 1)
            /\ \A i \in 1..Len(rndTable) : \A r \in 0..(h - 1) : \A c \in 0..(w - 1) :
                   LET y == Trunc(rndTable[i].dy, rndLevel) - SetMin(ys) + r
                       x == Trunc(rndTable[i].dx, rndLevel) - SetMin(xs) + c
                   IN  (\A j \in (i + 1)..Len(rndTable) :
                            ~PastedOver(rndTable, rndLevel, rndShape, j, y, x))
                       => /\ y \in 0..(out_h - 1)
                          /\ x \in 0..(out_w - 1)
                          /\ canvas[y][x] = TilePixel(rndTable[i].fov, r * rndLevel, c * rndLevel)

\* Two tiles of 3 x 3 pixels at level 2, one at a negative offset the level
\* does not divide, have been composited.
C17_Witness ==
    /\ rndStep = "returned"
    /\ Len(rndTable) = 2
    /\ rndLevel = 2
    /\ rndShape = <<3, 3>>
    /\ rndTable[1].dx = -3
    /\ rndTable[2].dx = 3
    /\ rndTable[1].dy # rndTable[2].dy
    /\ rndTable[1].fov # rndTable[2].fov


\* The rows of the table pasted over the cell (y, x) of the canvas.
RowsOver(y, x) ==
    {i \in 1..Len(rndTable) : PastedOver(rndTable, rndLevel, rndShape, i, y, x)}

\* C29: in the canvas composite returns, a cell that several rows of the
\* table are pasted over holds the pixel of the last of them in row order,
\* unblended, and a cell no row is pasted over holds 0.
C29_LastRowWins ==
    rndStep = "returned" =>
        \A y \in DOMAIN canvas : \A x \in DOMAIN canvas[y] :
            IF RowsOver(y, x) = {} THEN canvas[y][x] = 0
            ELSE LET i == SetMax(RowsOver(y, x))
                     top == Trunc(rndTable[i].dy, rndLevel) - SetMin(GridY(rndTable, rndLevel))
                     left == Trunc(rndTable[i].dx, rndLevel) - SetMin(GridX(rndTable, rndLevel))
                 IN  canvas[y][x] = TilePixel(rndTable[i].fov, (y - top) * rndLevel,
                                              (x - left) * rndLevel)

\* Two different tiles have been composited so that they overlap in part:
\* some cell is under both, some under the first alone, some under neither.
C29_Witness ==
    /\ rndStep = "returned"
    /\ Len(rndTable) = 2
    /\ rndTable[1].fov # rndTable[2].fov
    /\ \E y \in DOMAIN canvas : \E x \in DOMAIN canvas[y] : RowsOver(y, x) = {1, 2}
    /\ \E y \in DOMAIN canvas : \E x \in DOMAIN canvas[y] : RowsOver(y, x) = {1}
    /\ \E y \in DOMAIN canvas : \E x \in DOMAIN canvas[y] : RowsOver(y, x) = {}

\* C30: with tiles of one shape, for every level and every mix of positive
\* and negative offsets, the region every row is pasted into lies inside the
\* canvas: composite raises no error on it and clips no tile.
C30_PasteInsideCanvas ==
    /\ rndStep # "raised"
    /\ rndStep \in {"pasting", "returned"} =>
          \A i \in 1..Len(rndTable) :
              LET top == Trunc(rndTable[i].dy, rndLevel)
                             - SetMin({Trunc(rndTable[j].dy, rndLevel) : j \in 1..Len(rndTable)})
                  left == Trunc(rndTable[i].dx, rndLevel)
                             - SetMin({Trunc(rndTable[j].dx, rndLevel) : j \in 1..Len(rndTable)})
              IN  /\ 0 <= top
                  /\ top + CeilDiv(rndShape[1], rndLevel) <= Cardinality(DOMAIN canvas)
                  /\ 0 <= left
                  /\ left + CeilDiv(rndShape[2], rndLevel) <= Cardinality(DOMAIN canvas[0])

\* Two tiles of a shape the level does not divide, one at negative and one
\* at positive offsets on both axes, have been composited.
C30_Witness ==
    /\ rndStep = "returned"
    /\ Len(rndTable) = 2
    /\ rndShape[1] % rndLevel # 0
    /\ rndShape[2] % rndLevel # 0
    /\ rndTable[1].dy = 3 /\ rndTable[1].dx = -3
    /\ rndTable[2].dy = -3 /\ rndTable[2].dx = 3


(***************************************************************************)
(* Claims on the pyramid.                                                  *)
(***************************************************************************)
\* C18: build_levels returns one entry per configured factor f: the base
\* overview itself when f <= 1, otherwise an array of floor(H/f) rows and
\* floor(W/f) columns whose cell (i, j) is the mean of the rows
\* i*f..(i+1)*f-1 and columns j*f..(j+1)*f-1 of the base, the rows and
\* columns past the last complete block being left out.
C18_BlockMeanLevels ==
    (pyrStep = "returned") =>
        LET base == base_overview.arr
            H == Cardinality(DOMAIN base)
            W == IF H = 0 THEN 0 ELSE Cardinality(DOMAIN base[0])
        IN  /\ DOMAIN levels = {zoom_levels[k] : k \in 1..Len(zoom_levels)}
            /\ \A f \in DOMAIN levels :
                   IF f <= 1 THEN levels[f] = base_overview
                   ELSE /\ DOMAIN levels[f].arr = 0..((H \div f) - 1)
                        /\ \A i \in DOMAIN levels[f].arr :
                               /\ DOMAIN levels[f].arr[i] = 0..((W \div f) - 1)
                               /\ \A j \in DOMAIN levels[f].arr[i] :
                                      LET cells == ((i * f)..((i + 1) * f - 1))
                                                   \X ((j * f)..((j + 1) * f - 1))
                                      IN  /\ levels[f].arr[i][j][2] = f * f
                                          /\ levels[f].arr[i][j][1]
                                             = SumOver([p \in cells |-> base[p[1]][p[2]]], cells)

\* Levels were built with factor 2 from an overview of three tiles of
\* 3 x 3 pixels: the factor divides the overview and not its chunks; and
\* with factor 1.
C18_Witness ==
    /\ pyrStep = "returned"
    /\ pyrGrid = [n |-> 3, tile_h |-> 3, tile_w |-> 3]
    /\ zoom_levels = <<1, 2>>
    /\ Cardinality(DOMAIN levels[2].arr) = 3


(***************************************************************************)
(* Claims on the data source.                                              *)
(***************************************************************************)
\* C20: load_tile ends with the unsupported-level ValueError for every level
\* other than 1, without having looked the tile up, and with a different
\* error, FileNotFoundError, when the level is 1 and no tile is indexed for
\* (fov, z); load_overview ends with the unsupported-level ValueError for
\* every level other than 1.
C20_LevelCheckedFirst ==
    (dsStep = "done") =>
        /\ (dsCall.level # 1) =>
               /\ dsResult.ok = "raised"
               /\ dsResult.err = "ValueError"
               /\ dsResult.what = "level"
               /\ ~dsLooked
        /\ (/\ dsCall.op = "load_tile"
            /\ dsCall.level = 1
            /\ <<dsCall.fov, dsCall.z>> \notin DOMAIN tiles_index) =>
               /\ dsResult.ok = "raised"
               /\ dsResult.err = "FileNotFoundError"
               /\ dsResult.what = "tile"

\* load_tile has ended for a level above 1 and a tile that is not indexed.
C20_Witness ==
    /\ dsStep = "done"
    /\ dsCall.op = "load_tile"
    /\ dsCall.level = 2
    /\ <<dsCall.fov, dsCall.z>> \notin DOMAIN tiles_index

=============================================================================
